---- MODULE Spec2Model ----
(***************************************************************************)
(* Model of the lightmap baker VkLightmap                                  *)
(* (src/common/rendering/vulkan/accelstructs/vk_lightmap.cpp): the         *)
(* per-invocation pipeline SelectSurfaces -> RenderBakeImage ->            *)
(* ResolveBakeImage -> BlurBakeImage -> CopyBakeImageResult, the two       *)
(* arenas (vertices, lights), the telemetry counters and the commands      *)
(* recorded into the transfer command buffer.                              *)
(***************************************************************************)
EXTENDS Integers, Sequences, FiniteSets, TLC

(***************************************************************************)
(* Bounds of the model.  The canvas and the arenas are scaled down so that *)
(* a handful of surfaces fills them.                                       *)
(***************************************************************************)
NumSurfaces == 3
MaxInvocations == 2
MaxMarkDirty == 1
bakeImageSize == 10
verticesBufferSize == 16
lightsBufferSize == 4
(* the modulus of the unsigned pixel counters (2^32 in the program) *)
PixelCountMod == 16

(* Program constants. *)
spacing == 3
UINT16_MOD == 65536

Surfaces == 1..NumSurfaces

Max(a, b) == IF a >= b THEN a ELSE b

(***************************************************************************)
(* The level mesh (external input).  A surface has a texture size, a       *)
(* vertex count, a light list (its length), the sign of plane.XYZ() |      *)
(* SunDirection and a smoothing group.  The kinds below are the inputs the *)
(* model draws surfaces from.                                              *)
(***************************************************************************)
SurfaceKinds ==
    { [texWidth |-> 1, texHeight |-> 1, numVerts |-> 4, lightCount |-> 1, sunDot |-> 1],
      [texWidth |-> 1, texHeight |-> 6, numVerts |-> 4, lightCount |-> 0, sunDot |-> -1],
      [texWidth |-> 6, texHeight |-> 1, numVerts |-> 6, lightCount |-> 1, sunDot |-> -1],
      [texWidth |-> bakeImageSize - 1, texHeight |-> 1, numVerts |-> 4, lightCount |-> 0, sunDot |-> 1] }

(* mesh->SmoothingGroups: either one group holds every surface, or the
   surfaces alternate between two groups *)
SmoothingGroupLayouts ==
    { [s \in Surfaces |-> 1], [s \in Surfaces |-> 1 + (s % 2)] }

VARIABLES
    surf,               \* mesh: surface -> kind (constant during a behaviour)
    smoothingGroupIndex,\* mesh: surface -> smoothing group
    needsUpdate,        \* LevelMeshSurface::needsUpdate
    mesh,               \* VkLightmap::mesh ("null" until SetLevelMesh)
    pc,                 \* position inside Raytrace
    surfaces,           \* the argument of the running Raytrace call (empty when none runs)
    verticesPos,        \* vertices.Pos
    lightsPos,          \* lights.Pos
    selectedSurfaces,   \* VkLightmap::selectedSurfaces
    bakeImage,          \* bakeImage.maxX, bakeImage.maxY
    buffersFull,        \* RenderBakeImage's local flag, as left by the last trace
    lastSurfaceCount,
    lastPixelCount,
    totalPixelCount,
    cmds,               \* commands recorded by the running/last invocation
    invocations,        \* history: number of Raytrace calls so far
    marks,              \* history: number of MarkDirty steps so far
    callsThisFrame,     \* history: Raytrace calls since the last BeginFrame
    dirtyAtStart,       \* history: needsUpdate at the start of the running invocation
    renderedArea,       \* history: area marked rendered since construction
    renderedAreaLevel,  \* history: area marked rendered since SetLevelMesh
    Lightmaps,          \* VkTextureManager::Lightmaps: the atlas pages
    download,           \* position inside DownloadTexture, and its arrayIndex
    transferCommands,   \* commands DownloadTexture recorded that the GPU has not executed
    stagingBuffer,      \* the staging buffer of DownloadTexture
    buffer,             \* the destination buffer of DownloadLightmap
    Textures,           \* VkTextureManager::Textures: the hardware textures alive
    PendingUploads,     \* VkTextureManager::PendingUploads: upload id -> texture
    NextUploadID,       \* VkTextureManager::NextUploadID
    destroyed,          \* history: the textures RemoveTexture was called for
    createdFor,         \* history: upload id -> the texture CreateUploadID got
    Worker,             \* VkTextureManager::Worker: Mutex, StopFlag, WorkerTasks, MainTasks
    workerThread,       \* Worker.Thread: its position in WorkerThreadMain and its task
    stopThread,         \* the thread in StopWorkerThread: its position
    submitThread,       \* the thread in RunOnWorkerThread: its position
    executed,           \* history: the tasks the worker ran, in order
    submitted           \* history: number of tasks passed to RunOnWorkerThread

vars == << surf, smoothingGroupIndex, needsUpdate, mesh, pc, surfaces,
           verticesPos, lightsPos, selectedSurfaces, bakeImage, buffersFull,
           lastSurfaceCount, lastPixelCount, totalPixelCount, cmds,
           invocations, marks, callsThisFrame, dirtyAtStart,
           renderedArea, renderedAreaLevel,
           Lightmaps, download, transferCommands, stagingBuffer, buffer,
           Textures, PendingUploads, NextUploadID, destroyed, createdFor,
           Worker, workerThread, stopThread, submitThread, executed, submitted >>

uploadVars == << Textures, PendingUploads, NextUploadID, destroyed, createdFor >>
workerVars == << Worker, workerThread, stopThread, submitThread, executed, submitted >>
managerVars == << uploadVars, workerVars >>
texVars == << Lightmaps, download, transferCommands, stagingBuffer, buffer, managerVars >>
bakeVars == << surf, smoothingGroupIndex, needsUpdate, mesh, pc, surfaces,
               verticesPos, lightsPos, selectedSurfaces, bakeImage, buffersFull,
               lastSurfaceCount, lastPixelCount, totalPixelCount, cmds,
               invocations, marks, callsThisFrame, dirtyAtStart,
               renderedArea, renderedAreaLevel >>
meshVars == << surf, smoothingGroupIndex >>
statVars == << lastSurfaceCount, lastPixelCount, totalPixelCount >>
histVars == << invocations, marks, callsThisFrame, dirtyAtStart,
               renderedArea, renderedAreaLevel >>

(* LevelMeshSurface::Area() *)
Area(s) == surf[s].texWidth * surf[s].texHeight

(***************************************************************************)
(* RectPacker: pages of bakeImageSize x bakeImageSize filled shelf by      *)
(* shelf, with `spacing' texels left between neighbouring rectangles.      *)
(* A page is [x, y, rowH]: the cursor of the open shelf and its height.    *)
(***************************************************************************)
EmptyPage == [x |-> 0, y |-> 0, rowH |-> 0]

PageFitsRow(p, w, h) ==
    /\ p.x + w <= bakeImageSize
    /\ p.y + h <= bakeImageSize

PageNextRowY(p) == IF p.rowH = 0 THEN p.y ELSE p.y + p.rowH + spacing

PageFitsNewRow(p, w, h) ==
    /\ w <= bakeImageSize
    /\ PageNextRowY(p) + h <= bakeImageSize

PageFits(p, w, h) == PageFitsRow(p, w, h) \/ PageFitsNewRow(p, w, h)

PagePos(p, w, h) ==
    IF PageFitsRow(p, w, h) THEN [x |-> p.x, y |-> p.y]
    ELSE [x |-> 0, y |-> PageNextRowY(p)]

PageInsert(p, w, h) ==
    IF PageFitsRow(p, w, h)
    THEN [x |-> p.x + w + spacing, y |-> p.y, rowH |-> Max(p.rowH, h)]
    ELSE [x |-> w + spacing, y |-> PageNextRowY(p), rowH |-> h]

(* index of the first page of `pages' that takes w x h, 0 when none does *)
RECURSIVE FirstFit(_, _, _, _)
FirstFit(pages, k, w, h) ==
    IF k > Len(pages) THEN 0
    ELSE IF PageFits(pages[k], w, h) THEN k
    ELSE FirstFit(pages, k + 1, w, h)

(***************************************************************************)
(* RectPacker::insert: [pages, pageIndex, pos]; pageIndex is 0-based as in *)
(* the program and is -1 for a rectangle that no page can hold.            *)
(***************************************************************************)
PackerInsert(pages, w, h) ==
    IF w > bakeImageSize \/ h > bakeImageSize
    THEN [pages |-> pages, pageIndex |-> -1, pos |-> [x |-> 0, y |-> 0]]
    ELSE LET k == FirstFit(pages, 1, w, h) IN
         IF k # 0
         THEN [pages |-> [pages EXCEPT ![k] = PageInsert(pages[k], w, h)],
               pageIndex |-> k - 1,
               pos |-> PagePos(pages[k], w, h)]
         ELSE [pages |-> Append(pages, PageInsert(EmptyPage, w, h)),
               pageIndex |-> Len(pages),
               pos |-> PagePos(EmptyPage, w, h)]

(***************************************************************************)
(* SelectSurfaces (the loop of lines 104-126).  st = [pages, selected,     *)
(* needsUpdate, maxX, maxY]; `input' is the surfaces argument.             *)
(***************************************************************************)
SelectAcceptsAnyPage(result) == result.pageIndex >= 0

SelectAccepts(result) == result.pageIndex = 0

SelectedSurface(s, result) ==
    [Surface |-> s, X |-> result.pos.x + 1, Y |-> result.pos.y + 1, Rendered |-> FALSE]

SelectPlaceFront(st, s, result) ==
    LET selected == SelectedSurface(s, result) IN
    [pages |-> result.pages,
     selected |-> << selected >> \o st.selected,
     needsUpdate |-> [st.needsUpdate EXCEPT ![s] = FALSE],
     maxX |-> Max(st.maxX, (selected.X + surf[s].texWidth + spacing) % UINT16_MOD),
     maxY |-> Max(st.maxY, (selected.Y + surf[s].texHeight + spacing) % UINT16_MOD)]

SelectPlace(st, s, result) ==
    LET selected == SelectedSurface(s, result) IN
    [pages |-> result.pages,
     selected |-> Append(st.selected, selected),
     needsUpdate |-> [st.needsUpdate EXCEPT ![s] = FALSE],
     maxX |-> Max(st.maxX, (selected.X + surf[s].texWidth + spacing) % UINT16_MOD),
     maxY |-> Max(st.maxY, (selected.Y + surf[s].texHeight + spacing) % UINT16_MOD)]

RECURSIVE SelectLoopBreak(_, _, _)
SelectLoopBreak(input, i, st) ==
    IF i > Len(input) THEN st
    ELSE LET s == input[i]
             result == PackerInsert(st.pages, surf[s].texWidth + 2, surf[s].texHeight + 2)
         IN IF ~st.needsUpdate[s] THEN SelectLoopBreak(input, i + 1, st)
            ELSE IF SelectAccepts(result)
                 THEN SelectLoopBreak(input, i + 1, SelectPlace(st, s, result))
                 ELSE [st EXCEPT !.pages = result.pages]

RECURSIVE SelectLoopDropUnplaced(_, _, _)
SelectLoopDropUnplaced(input, i, st) ==
    IF i > Len(input) THEN st
    ELSE LET s == input[i]
             result == PackerInsert(st.pages, surf[s].texWidth + 2, surf[s].texHeight + 2)
         IN IF ~st.needsUpdate[s] THEN SelectLoopDropUnplaced(input, i + 1, st)
            ELSE IF SelectAccepts(result)
                 THEN SelectLoopDropUnplaced(input, i + 1, SelectPlace(st, s, result))
                 ELSE SelectLoopDropUnplaced(input, i + 1,
                        [st EXCEPT !.pages = result.pages,
                                   !.needsUpdate = [@ EXCEPT ![s] = FALSE]])

RECURSIVE SelectLoop(_, _, _)
SelectLoop(input, i, st) ==
    IF i > Len(input) THEN st
    ELSE LET s == input[i]
             result == PackerInsert(st.pages, surf[s].texWidth + 2, surf[s].texHeight + 2)
         IN IF ~st.needsUpdate[s] THEN SelectLoop(input, i + 1, st)
            ELSE IF SelectAccepts(result)
                 THEN SelectLoop(input, i + 1, SelectPlace(st, s, result))
                 ELSE SelectLoop(input, i + 1, [st EXCEPT !.pages = result.pages])

SelectSurfaces(input, nu) ==
    SelectLoop(input, 1,
               [pages |-> << EmptyPage >>, selected |-> << >>,
                needsUpdate |-> nu, maxX |-> 0, maxY |-> 0])

(***************************************************************************)
(* Recorded commands.  Only the commands that carry the data flow between  *)
(* the stages are kept: barriers, render passes, descriptor bindings,      *)
(* draws and copies.                                                       *)
(***************************************************************************)
BaseCmd == [op |-> "", stage |-> "", image |-> "", target |-> 0, member |-> 0,
            firstVertex |-> 0, vertexCount |-> 0, lightStart |-> 0, lightEnd |-> 0,
            maxX |-> 0, maxY |-> 0, regions |-> << >>, pages |-> {},
            transitions |-> << >>]

(* WriteDescriptors in CreateBakeImage: the image each descriptor set samples *)
DescriptorImageInPlace(ds) ==
    CASE ds = "resolve.DescriptorSet" -> "raytrace"
      [] ds = "blur.DescriptorSet[0]" -> "resolve"
      [] ds = "blur.DescriptorSet[1]" -> "resolve"

DescriptorImage(ds) ==
    CASE ds = "resolve.DescriptorSet" -> "raytrace"
      [] ds = "blur.DescriptorSet[0]" -> "resolve"
      [] ds = "blur.DescriptorSet[1]" -> "blur"

(***************************************************************************)
(* RenderBakeImage.                                                        *)
(***************************************************************************)
RECURSIVE GroupFrom(_, _)
GroupFrom(g, s) ==
    IF s > NumSurfaces THEN << >>
    ELSE IF smoothingGroupIndex[s] = g THEN << s >> \o GroupFrom(g, s + 1)
    ELSE GroupFrom(g, s + 1)

(* mesh->SmoothingGroups[g].surfaces *)
SmoothingGroupSurfaces(g) == GroupFrom(g, 1)

(* ToUV of the bounds of `surface' in the UV space of `target': the surfaces
   of the level are unit tiles laid side by side, surface s covering [s, s+1] *)
BoundsMinU(surface, target) == surface - target
BoundsMaxU(surface, target) == surface - target + 1

BoundsNotVisible(surface, target) ==
    /\ surface # target
    /\ (BoundsMaxU(surface, target) < 0 \/ BoundsMinU(surface, target) > 1)

(* line 151: no lights, no sun *)
NoLightsSunLit(target) == surf[target].lightCount = 0 /\ surf[target].sunDot > 0

NoLightsNoSun(target) == surf[target].lightCount = 0 /\ surf[target].sunDot < 0

(* line 178 *)
ArenaFull(lpos, vpos, lightCount, vertexCount) ==
    lpos + lightCount > lightsBufferSize \/ vpos + vertexCount > verticesBufferSize

DrawCmd(stage, target, member, firstVertex, vertexCount, firstLight, lightCount) ==
    [BaseCmd EXCEPT !.op = "draw", !.stage = stage, !.target = target, !.member = member,
                    !.firstVertex = firstVertex, !.vertexCount = vertexCount,
                    !.lightStart = firstLight, !.lightEnd = firstLight + lightCount]

(* the loop over the smoothing group of lines 168-231;
   st = [verticesPos, lightsPos, cmds, buffersFull] *)
RECURSIVE PaintGroupSkipMember(_, _, _, _)
PaintGroupSkipMember(members, k, target, st) ==
    IF k > Len(members) THEN st
    ELSE LET surface == members[k]
             lightCount == surf[surface].lightCount
             vertexCount == surf[surface].numVerts
         IN IF BoundsNotVisible(surface, target)
            THEN PaintGroupSkipMember(members, k + 1, target, st)
            ELSE IF ArenaFull(st.lightsPos, st.verticesPos, lightCount, vertexCount)
                 THEN PaintGroupSkipMember(members, k + 1, target,
                                           [st EXCEPT !.buffersFull = TRUE])
                 ELSE PaintGroupSkipMember(members, k + 1, target,
                        [st EXCEPT !.lightsPos = @ + lightCount,
                                   !.verticesPos = @ + vertexCount,
                                   !.cmds = Append(@, DrawCmd("trace", target, surface,
                                                st.verticesPos, vertexCount,
                                                st.lightsPos, lightCount))])

RECURSIVE PaintGroup(_, _, _, _)
PaintGroup(members, k, target, st) ==
    IF k > Len(members) THEN st
    ELSE LET surface == members[k]
             lightCount == surf[surface].lightCount
             vertexCount == surf[surface].numVerts
         IN IF BoundsNotVisible(surface, target)
            THEN PaintGroup(members, k + 1, target, st)
            ELSE IF ArenaFull(st.lightsPos, st.verticesPos, lightCount, vertexCount)
                 THEN [st EXCEPT !.buffersFull = TRUE]
                 ELSE PaintGroup(members, k + 1, target,
                        [st EXCEPT !.lightsPos = @ + lightCount,
                                   !.verticesPos = @ + vertexCount,
                                   !.cmds = Append(@, DrawCmd("trace", target, surface,
                                                st.verticesPos, vertexCount,
                                                st.lightsPos, lightCount))])

(* lines 235-239: re-queue selectedSurfaces[i..] *)
RequeueAfter(nu, selected, i) ==
    [s \in Surfaces |->
        IF \E j \in (i + 1)..Len(selected) : selected[j].Surface = s THEN TRUE ELSE nu[s]]

RequeueAll(nu, selected, i) ==
    [s \in Surfaces |->
        IF \E j \in 1..Len(selected) : selected[j].Surface = s THEN TRUE ELSE nu[s]]

Requeue(nu, selected, i) ==
    [s \in Surfaces |->
        IF \E j \in i..Len(selected) : selected[j].Surface = s THEN TRUE ELSE nu[s]]

(* the loop over the selection of lines 146-244;
   st = [selected, needsUpdate, verticesPos, lightsPos, cmds, buffersFull] *)
RECURSIVE RenderLoopContinue(_, _)
RenderLoopContinue(i, st) ==
    IF i > Len(st.selected) THEN st
    ELSE LET target == st.selected[i].Surface IN
         IF NoLightsNoSun(target)
         THEN RenderLoopContinue(i + 1, [st EXCEPT !.selected[i].Rendered = TRUE])
         ELSE LET p == PaintGroup(SmoothingGroupSurfaces(smoothingGroupIndex[target]), 1, target,
                                  [verticesPos |-> st.verticesPos, lightsPos |-> st.lightsPos,
                                   cmds |-> st.cmds, buffersFull |-> FALSE])
                  q == [st EXCEPT !.verticesPos = p.verticesPos, !.lightsPos = p.lightsPos,
                                  !.cmds = p.cmds,
                                  !.buffersFull = st.buffersFull \/ p.buffersFull]
              IN IF p.buffersFull
                 THEN RenderLoopContinue(i + 1,
                        [q EXCEPT !.needsUpdate = [st.needsUpdate EXCEPT ![target] = TRUE]])
                 ELSE RenderLoopContinue(i + 1, [q EXCEPT !.selected[i].Rendered = TRUE])

RECURSIVE RenderLoopSkipUnrendered(_, _)
RenderLoopSkipUnrendered(i, st) ==
    IF i > Len(st.selected) THEN st
    ELSE LET target == st.selected[i].Surface IN
         IF NoLightsNoSun(target)
         THEN RenderLoopSkipUnrendered(i + 1, st)
         ELSE LET p == PaintGroup(SmoothingGroupSurfaces(smoothingGroupIndex[target]), 1, target,
                                  [verticesPos |-> st.verticesPos, lightsPos |-> st.lightsPos,
                                   cmds |-> st.cmds, buffersFull |-> FALSE])
                  q == [st EXCEPT !.verticesPos = p.verticesPos, !.lightsPos = p.lightsPos,
                                  !.cmds = p.cmds, !.buffersFull = p.buffersFull]
              IN IF p.buffersFull
                 THEN [q EXCEPT !.needsUpdate = Requeue(st.needsUpdate, st.selected, i)]
                 ELSE RenderLoopSkipUnrendered(i + 1, [q EXCEPT !.selected[i].Rendered = TRUE])

RECURSIVE RenderLoop(_, _)
RenderLoop(i, st) ==
    IF i > Len(st.selected) THEN st
    ELSE LET target == st.selected[i].Surface IN
         IF NoLightsNoSun(target)
         THEN RenderLoop(i + 1, [st EXCEPT !.selected[i].Rendered = TRUE])
         ELSE LET p == PaintGroup(SmoothingGroupSurfaces(smoothingGroupIndex[target]), 1, target,
                                  [verticesPos |-> st.verticesPos, lightsPos |-> st.lightsPos,
                                   cmds |-> st.cmds, buffersFull |-> FALSE])
                  q == [st EXCEPT !.verticesPos = p.verticesPos, !.lightsPos = p.lightsPos,
                                  !.cmds = p.cmds, !.buffersFull = p.buffersFull]
              IN IF p.buffersFull
                 THEN [q EXCEPT !.needsUpdate = Requeue(st.needsUpdate, st.selected, i)]
                 ELSE RenderLoop(i + 1, [q EXCEPT !.selected[i].Rendered = TRUE])

(* the surfaces of `selected' marked rendered, and their summed area *)
RenderedSet(selected) ==
    { selected[j].Surface : j \in { k \in 1..Len(selected) : selected[k].Rendered } }

RECURSIVE SumArea(_)
SumArea(S) ==
    IF S = {} THEN 0
    ELSE LET s == CHOOSE x \in S : TRUE IN Area(s) + SumArea(S \ {s})

BarrierCmd(stage, image) == [BaseCmd EXCEPT !.op = "barrier", !.stage = stage, !.image = image]

(* RenderPassBegin ... .Framebuffer(image).RenderArea(0, 0, w, h) *)
BeginRenderPassCmd(stage, image, w, h) ==
    [BaseCmd EXCEPT !.op = "beginRenderPass", !.stage = stage, !.image = image,
                    !.maxX = w, !.maxY = h]

BindDescriptorSetCmd(stage, ds) ==
    [BaseCmd EXCEPT !.op = "bindDescriptorSet", !.stage = stage, !.image = DescriptorImage(ds)]

EndRenderPassCmd(stage) == [BaseCmd EXCEPT !.op = "endRenderPass", !.stage = stage]

(* UploadUniforms: copyBuffer and the buffer barrier *)
UploadUniformsCmds ==
    << [BaseCmd EXCEPT !.op = "copyBuffer", !.stage = "uniforms", !.image = "uniforms.Buffer"],
       BarrierCmd("uniforms", "uniforms.Buffer") >>

(* the image barrier that opens ResolveBakeImage (271), blur pass 0 (318)
   and blur pass 1 (363) *)
StageBarrierImageCopied(stage) ==
    CASE stage = "resolve" -> "raytrace"
      [] stage = "blur0" -> "resolve"
      [] stage = "blur1" -> "resolve"

StageBarrierImage(stage) ==
    CASE stage = "resolve" -> "raytrace"
      [] stage = "blur0" -> "resolve"
      [] stage = "blur1" -> "blur"

StageBarrier(stage) == BarrierCmd(stage, StageBarrierImage(stage))

(* the full-screen quad of ResolveBakeImage and of the two blur passes *)
QuadVertexCount == 4

FullScreenPassWholeCanvas(stage, framebuffer, ds, vpos) ==
    << BeginRenderPassCmd(stage, framebuffer, bakeImageSize, bakeImageSize),
       BindDescriptorSetCmd(stage, ds),
       DrawCmd(stage, 0, 0, vpos, QuadVertexCount, 0, 0),
       EndRenderPassCmd(stage) >>

FullScreenPass(stage, framebuffer, ds, vpos) ==
    << BeginRenderPassCmd(stage, framebuffer, bakeImage.maxX, bakeImage.maxY),
       BindDescriptorSetCmd(stage, ds),
       DrawCmd(stage, 0, 0, vpos, QuadVertexCount, 0, 0),
       EndRenderPassCmd(stage) >>

(* LevelMeshSurface::atlasPageIndex, atlasX, atlasY: two surfaces per page *)
AtlasPlacement(s) ==
    [atlasPageIndex |-> (s - 1) \div 2, atlasX |-> ((s - 1) % 2) * bakeImageSize, atlasY |-> 0]

CopyRegionPadded(selected) ==
    [srcX |-> selected.X - 1, srcY |-> selected.Y - 1,
     dstX |-> AtlasPlacement(selected.Surface).atlasX,
     dstY |-> AtlasPlacement(selected.Surface).atlasY,
     dstPage |-> AtlasPlacement(selected.Surface).atlasPageIndex,
     width |-> surf[selected.Surface].texWidth + 2,
     height |-> surf[selected.Surface].texHeight + 2]

CopyRegion(selected) ==
    [srcX |-> selected.X, srcY |-> selected.Y,
     dstX |-> AtlasPlacement(selected.Surface).atlasX,
     dstY |-> AtlasPlacement(selected.Surface).atlasY,
     dstPage |-> AtlasPlacement(selected.Surface).atlasPageIndex,
     width |-> surf[selected.Surface].texWidth,
     height |-> surf[selected.Surface].texHeight]

(* line 418 *)
CopyTakesAll(selected) == TRUE

CopyTakes(selected) == selected.Rendered

(* line 437: pixels += surface->Area() in uint32_t *)
AddWidth(pixels, s) == (pixels + surf[s].texWidth) % PixelCountMod

AddArea(pixels, s) == (pixels + Area(s)) % PixelCountMod

(* line 443: totalPixelCount += pixels in uint32_t *)
SetPixels(total, pixels) == pixels

AddPixels(total, pixels) == (total + pixels) % PixelCountMod

(* line 435: seenPages.insert(pageIndex) on a std::set<int>, kept as the
   sequence its iteration yields (ascending, no duplicates) *)
SeenPagesInsertDup(seenPages, pageIndex) == Append(seenPages, pageIndex)

SeenPagesInsert(seenPages, pageIndex) ==
    IF \E i \in 1..Len(seenPages) : seenPages[i] = pageIndex THEN seenPages
    ELSE SelectSeq(seenPages, LAMBDA q : q < pageIndex)
         \o << pageIndex >>
         \o SelectSeq(seenPages, LAMBDA q : q > pageIndex)

(* the loop of lines 415-440; st = [pixels, count, regions, seenPages] *)
RECURSIVE CopyLoop(_, _, _)
CopyLoop(selected, i, st) ==
    IF i > Len(selected) THEN st
    ELSE IF CopyTakes(selected[i])
         THEN CopyLoop(selected, i + 1,
                 [pixels |-> AddArea(st.pixels, selected[i].Surface),
                  count |-> st.count + 1,
                  regions |-> Append(st.regions, CopyRegion(selected[i])),
                  seenPages |-> SeenPagesInsert(st.seenPages,
                                    AtlasPlacement(selected[i].Surface).atlasPageIndex)])
         ELSE CopyLoop(selected, i + 1, st)

(* PipelineBarrier::AddImage(image, oldLayout, newLayout, ..., pageIndex, 1) *)
ImageTransition(image, pageIndex, oldLayout, newLayout) ==
    [image |-> image, page |-> pageIndex, oldLayout |-> oldLayout, newLayout |-> newLayout]

(* lines 451-452 and 458-459: one AddImage per element of seenPages *)
PageTransitions(seenPages, oldLayout, newLayout) ==
    [i \in 1..Len(seenPages) |-> ImageTransition("lightmap", seenPages[i], oldLayout, newLayout)]

PageSet(seenPages) == { seenPages[i] : i \in 1..Len(seenPages) }

(* lines 449-460: barrier0, copyImage, barrier1 *)
CopyCmdsIssued(st) ==
         << [BaseCmd EXCEPT !.op = "barrier", !.stage = "copy", !.image = "resolve",
                            !.pages = PageSet(st.seenPages),
                            !.transitions =
                                << ImageTransition("resolve", 0, "COLOR_ATTACHMENT_OPTIMAL",
                                                   "TRANSFER_SRC_OPTIMAL") >>
                                \o PageTransitions(st.seenPages, "SHADER_READ_ONLY_OPTIMAL",
                                                   "TRANSFER_DST_OPTIMAL")],
            [BaseCmd EXCEPT !.op = "copyImage", !.stage = "copy", !.image = "resolve",
                            !.regions = st.regions],
            [BaseCmd EXCEPT !.op = "barrier", !.stage = "copy", !.image = "lightmap",
                            !.pages = PageSet(st.seenPages),
                            !.transitions =
                                PageTransitions(st.seenPages, "TRANSFER_DST_OPTIMAL",
                                                "SHADER_READ_ONLY_OPTIMAL")] >>

(* lines 445-461 *)
CopyCmdsAlways(st) == CopyCmdsIssued(st)

CopyCmds(st) == IF st.regions = << >> THEN << >> ELSE CopyCmdsIssued(st)

(***************************************************************************)
(* VkTextureManager: the lightmap atlas.  A page is [size, Layout]: the    *)
(* width and height of its image and the layout VkTextureImage tracks.     *)
(***************************************************************************)
MaxLightmapCount == 3
MaxLightmapSize == 2

(* the texels of an atlas page, and the content of memory nothing wrote *)
Texels(pageIndex) == [page |-> pageIndex]
NoTexels == [page |-> -1]

LightmapPage(size) == [size |-> size, Layout |-> "SHADER_READ_ONLY_OPTIMAL"]

(* CreateLightmap(size, count, srcPixels): the pages it leaves *)
CreatedLightmaps(size, count) == [i \in 1..count |-> LightmapPage(size)]

(* SetLightmapCount(size, count): the pages it leaves (lines 612-616) *)
ResizedLightmaps(pages, size, count) ==
    IF Len(pages) >= count THEN SubSeq(pages, 1, count)
    ELSE pages \o [i \in 1..(count - Len(pages)) |-> LightmapPage(size)]

GrownLightmaps(pages, size, count) ==
    IF Len(pages) >= count THEN pages
    ELSE pages \o [i \in 1..(count - Len(pages)) |-> LightmapPage(size)]

(***************************************************************************)
(* VkTextureManager after its constructor: no hardware texture registered, *)
(* no upload pending, the worker thread started (line 40) and nobody in    *)
(* RunOnWorkerThread or StopWorkerThread.                                  *)
(***************************************************************************)
NoUploads == [id \in {} |-> 0]

ManagerConstructed ==
    /\ Textures = {}
    /\ PendingUploads = NoUploads
    /\ NextUploadID = 1
    /\ destroyed = {}
    /\ createdFor = NoUploads
    /\ Worker = [Mutex |-> "none", StopFlag |-> FALSE,
                 WorkerTasks |-> << >>, MainTasks |-> << >>]
    /\ workerThread = [pc |-> "start", task |-> 0]
    /\ stopThread = "running"
    /\ submitThread = "idle"
    /\ executed = << >>
    /\ submitted = 0

(***************************************************************************)
(* Initial state: the engine after construction, a level mesh of           *)
(* NumSurfaces surfaces that all need a bake.                              *)
(***************************************************************************)
Init ==
    /\ surf \in [Surfaces -> SurfaceKinds]
    /\ smoothingGroupIndex \in SmoothingGroupLayouts
    /\ needsUpdate = [s \in Surfaces |-> TRUE]
    /\ mesh = "null"
    /\ pc = "idle"
    /\ surfaces = << >>
    /\ verticesPos = 0
    /\ lightsPos = 0
    /\ selectedSurfaces = << >>
    /\ bakeImage = [maxX |-> 0, maxY |-> 0]
    /\ buffersFull = FALSE
    /\ lastSurfaceCount = 0
    /\ lastPixelCount = 0
    /\ totalPixelCount = 0
    /\ cmds = << >>
    /\ invocations = 0
    /\ marks = 0
    /\ callsThisFrame = 0
    /\ dirtyAtStart = [s \in Surfaces |-> FALSE]
    /\ renderedArea = 0
    /\ renderedAreaLevel = 0
    /\ Lightmaps = CreatedLightmaps(1, 1)
    /\ download = [pc |-> "none", arrayIndex |-> 0]
    /\ transferCommands = << >>
    /\ stagingBuffer = NoTexels
    /\ buffer = NoTexels
    /\ ManagerConstructed

(* VkLightmap::SetLevelMesh *)
SetLevelMesh ==
    /\ pc = "idle"
    /\ mesh' = "level"
    /\ totalPixelCount' = 0
    /\ lastPixelCount' = 0
    /\ lastSurfaceCount' = 0
    /\ renderedAreaLevel' = 0
    /\ UNCHANGED << texVars, meshVars, needsUpdate, pc, surfaces, verticesPos, lightsPos,
                    selectedSurfaces, bakeImage, buffersFull, cmds,
                    invocations, marks, callsThisFrame, dirtyAtStart, renderedArea >>

(* VkLightmap::BeginFrame *)
BeginFrameLightsOnly ==
    /\ pc = "idle"
    /\ lightsPos' = 0
    /\ callsThisFrame' = 0
    /\ UNCHANGED << texVars, meshVars, needsUpdate, mesh, pc, surfaces, selectedSurfaces, bakeImage,
                    buffersFull, statVars, cmds, verticesPos,
                    invocations, marks, dirtyAtStart, renderedArea, renderedAreaLevel >>

BeginFrameVerticesOnly ==
    /\ pc = "idle"
    /\ verticesPos' = 0
    /\ callsThisFrame' = 0
    /\ UNCHANGED << texVars, meshVars, needsUpdate, mesh, pc, surfaces, selectedSurfaces, bakeImage,
                    buffersFull, statVars, cmds, lightsPos,
                    invocations, marks, dirtyAtStart, renderedArea, renderedAreaLevel >>

BeginFrame ==
    /\ pc = "idle"
    /\ lightsPos' = 0
    /\ verticesPos' = 0
    /\ callsThisFrame' = 0
    /\ UNCHANGED << texVars, meshVars, needsUpdate, mesh, pc, surfaces, selectedSurfaces, bakeImage,
                    buffersFull, statVars, cmds,
                    invocations, marks, dirtyAtStart, renderedArea, renderedAreaLevel >>

(* the level marks a surface for a new bake (external), while it updates
   before the frame's first lightmap update *)
MarkDirty(s) ==
    /\ pc = "idle"
    /\ callsThisFrame = 0
    /\ ~needsUpdate[s]
    /\ marks < MaxMarkDirty
    /\ marks' = marks + 1
    /\ needsUpdate' = [needsUpdate EXCEPT ![s] = TRUE]
    /\ UNCHANGED << texVars, meshVars, mesh, pc, surfaces, verticesPos, lightsPos, selectedSurfaces,
                    bakeImage, buffersFull, statVars, cmds,
                    invocations, callsThisFrame, dirtyAtStart,
                    renderedArea, renderedAreaLevel >>

NoneDirty == [s \in Surfaces |-> FALSE]

InputLists ==
    { << >>, [i \in 1..NumSurfaces |-> i], [i \in 1..NumSurfaces |-> NumSurfaces + 1 - i] }

(* VkLightmap::Raytrace up to and including SelectSurfaces (lines 70-81) *)
Raytrace(input) ==
    /\ pc = "idle"
    /\ mesh # "null"
    /\ invocations' = invocations + 1
    /\ callsThisFrame' = callsThisFrame + 1
    /\ cmds' = << >>
    /\ IF Len(input) > 0
       THEN LET r == SelectSurfaces(input, needsUpdate) IN
            /\ selectedSurfaces' = r.selected
            /\ needsUpdate' = r.needsUpdate
            /\ bakeImage' = [maxX |-> r.maxX, maxY |-> r.maxY]
            /\ IF Len(r.selected) > 0
               THEN pc' = "RenderBakeImage" /\ surfaces' = input /\ dirtyAtStart' = needsUpdate
               ELSE pc' = "idle" /\ surfaces' = << >> /\ dirtyAtStart' = NoneDirty
       ELSE /\ UNCHANGED << selectedSurfaces, needsUpdate, bakeImage, pc >>
            /\ surfaces' = << >>
            /\ dirtyAtStart' = NoneDirty
    /\ UNCHANGED << texVars, meshVars, mesh, verticesPos, lightsPos, buffersFull, statVars,
                    marks, renderedArea, renderedAreaLevel >>

(* UploadUniforms and RenderBakeImage *)
RenderBakeImage ==
    /\ pc = "RenderBakeImage"
    /\ LET r == RenderLoop(1, [selected |-> selectedSurfaces, needsUpdate |-> needsUpdate,
                               verticesPos |-> verticesPos, lightsPos |-> lightsPos,
                               cmds |-> cmds \o UploadUniformsCmds
                                        \o << BeginRenderPassCmd("trace", "raytrace",
                                                  bakeImageSize, bakeImageSize) >>,
                               buffersFull |-> FALSE])
       IN /\ selectedSurfaces' = r.selected
          /\ needsUpdate' = r.needsUpdate
          /\ verticesPos' = r.verticesPos
          /\ lightsPos' = r.lightsPos
          /\ buffersFull' = r.buffersFull
          /\ cmds' = Append(r.cmds, EndRenderPassCmd("trace"))
          /\ renderedArea' = renderedArea + SumArea(RenderedSet(r.selected))
          /\ renderedAreaLevel' = renderedAreaLevel + SumArea(RenderedSet(r.selected))
    /\ pc' = "ResolveBakeImage"
    /\ UNCHANGED << texVars, meshVars, mesh, surfaces, bakeImage, statVars,
                    invocations, marks, callsThisFrame, dirtyAtStart >>

(* ResolveBakeImage *)
ResolveBakeImage ==
    /\ pc = "ResolveBakeImage"
    /\ cmds' = cmds \o << StageBarrier("resolve") >>
                    \o FullScreenPass("resolve", "resolve", "resolve.DescriptorSet", verticesPos)
    /\ verticesPos' = verticesPos + QuadVertexCount
    /\ pc' = "BlurPass0"
    /\ UNCHANGED << texVars, meshVars, needsUpdate, mesh, surfaces, lightsPos, selectedSurfaces,
                    bakeImage, buffersFull, statVars, histVars >>

(* BlurBakeImage, pass 0 (lines 318-361) *)
BlurPass0 ==
    /\ pc = "BlurPass0"
    /\ cmds' = cmds \o << StageBarrier("blur0") >>
                    \o FullScreenPass("blur0", "blur", "blur.DescriptorSet[0]", verticesPos)
    /\ verticesPos' = verticesPos + QuadVertexCount
    /\ pc' = "BlurPass1"
    /\ UNCHANGED << texVars, meshVars, needsUpdate, mesh, surfaces, lightsPos, selectedSurfaces,
                    bakeImage, buffersFull, statVars, histVars >>

(* BlurBakeImage, pass 1 (lines 363-406) *)
BlurPass1Abort ==
    /\ pc = "BlurPass1"
    /\ pc' = "idle"
    /\ UNCHANGED << texVars, meshVars, needsUpdate, mesh, surfaces, lightsPos, selectedSurfaces,
                    bakeImage, buffersFull, statVars, histVars, cmds, verticesPos >>

BlurPass1 ==
    /\ pc = "BlurPass1"
    /\ cmds' = cmds \o << StageBarrier("blur1") >>
                    \o FullScreenPass("blur1", "resolve", "blur.DescriptorSet[1]", verticesPos)
    /\ verticesPos' = verticesPos + QuadVertexCount
    /\ pc' = "CopyBakeImageResult"
    /\ UNCHANGED << texVars, meshVars, needsUpdate, mesh, surfaces, lightsPos, selectedSurfaces,
                    bakeImage, buffersFull, statVars, histVars >>

(* CopyBakeImageResult, and the return of Raytrace *)
CopyBakeImageResult ==
    /\ pc = "CopyBakeImageResult"
    /\ LET r == CopyLoop(selectedSurfaces, 1,
                         [pixels |-> 0, count |-> 0, regions |-> << >>, seenPages |-> << >>])
       IN /\ lastSurfaceCount' = r.count
          /\ lastPixelCount' = r.pixels
          /\ totalPixelCount' = AddPixels(totalPixelCount, r.pixels)
          /\ cmds' = cmds \o CopyCmds(r)
    /\ pc' = "idle"
    /\ surfaces' = << >>
    /\ dirtyAtStart' = NoneDirty
    /\ UNCHANGED << texVars, meshVars, needsUpdate, mesh, verticesPos, lightsPos,
                    selectedSurfaces, bakeImage, buffersFull,
                    invocations, marks, callsThisFrame,
                    renderedArea, renderedAreaLevel >>

RaytraceCall == invocations < MaxInvocations /\ \E input \in InputLists : Raytrace(input)

MarkDirtyAny == \E s \in Surfaces : MarkDirty(s)

Next ==
    \/ SetLevelMesh
    \/ BeginFrame
    \/ MarkDirtyAny
    \/ RaytraceCall
    \/ RenderBakeImage
    \/ ResolveBakeImage
    \/ BlurPass0
    \/ BlurPass1
    \/ CopyBakeImageResult

Spec == Init /\ [][Next]_vars

(***************************************************************************)
(* The frame loop of VulkanRenderDevice: SetLevelMesh once when the level  *)
(* changes, then every frame BeginFrame followed by one UpdateLightmaps    *)
(* (Raytrace) on the surfaces of the level.                                *)
(***************************************************************************)
FrameSetLevelMesh == mesh = "null" /\ SetLevelMesh

FrameBeginFrame == mesh # "null" /\ callsThisFrame # 0 /\ BeginFrame

FrameRaytrace ==
    /\ callsThisFrame = 0
    /\ invocations < NumSurfaces + 1
    /\ \E input \in InputLists \ {<< >>} : Raytrace(input)

FrameNext ==
    \/ FrameSetLevelMesh
    \/ FrameBeginFrame
    \/ FrameRaytrace
    \/ RenderBakeImage
    \/ ResolveBakeImage
    \/ BlurPass0
    \/ BlurPass1
    \/ CopyBakeImageResult

FrameSpec == Init /\ [][FrameNext]_vars

(* Raytrace is one function call on the render thread (lines 83-87): the
   thread that is inside it goes on to the next statement *)
NextStatement ==
    CASE pc = "RenderBakeImage" -> "ResolveBakeImage"
      [] pc = "ResolveBakeImage" -> "BlurPass0"
      [] pc = "BlurPass0" -> "BlurPass1"
      [] pc = "BlurPass1" -> "CopyBakeImageResult"
      [] pc = "CopyBakeImageResult" -> "idle"

StageAdvance == pc # "idle" /\ pc' = NextStatement

FrameLiveSpec == FrameSpec /\ WF_pc(StageAdvance)

(* the render loop keeps producing frames: the device sets the level mesh,
   and every frame it calls BeginFrame and then UpdateLightmaps, until the
   bound on the number of invocations is reached *)
LevelAdvance == mesh = "null" /\ pc = "idle" /\ mesh' = "level"

FrameAdvance == mesh # "null" /\ pc = "idle" /\ callsThisFrame # 0 /\ callsThisFrame' = 0

CallAdvance ==
    /\ mesh # "null" /\ pc = "idle" /\ callsThisFrame = 0
    /\ invocations < NumSurfaces + 1
    /\ invocations' = invocations + 1

FrameLoopSpec ==
    /\ FrameLiveSpec
    /\ WF_mesh(LevelAdvance)
    /\ WF_callsThisFrame(FrameAdvance)
    /\ WF_invocations(CallAdvance)

(***************************************************************************)
(* VkTextureManager: CreateLightmap, SetLightmapCount and DownloadLightmap *)
(* run on the render thread between two invocations of the baker.          *)
(***************************************************************************)
TexIdle == pc = "idle" /\ download.pc = "none"

(* VkTextureManager::CreateLightmap(size, count, srcPixels) *)
CreateLightmap(size, count) ==
    /\ TexIdle
    /\ Lightmaps' = CreatedLightmaps(size, count)
    /\ UNCHANGED << bakeVars, managerVars, download, transferCommands, stagingBuffer, buffer >>

(* VkTextureManager::SetLightmapCount(size, count) *)
SetLightmapCount(size, count) ==
    /\ TexIdle
    /\ Lightmaps' = GrownLightmaps(Lightmaps, size, count)
    /\ UNCHANGED << bakeVars, managerVars, download, transferCommands, stagingBuffer, buffer >>

(* VkImageTransition().AddImage(texture, layout, false).Execute(cmdbuffer) *)
TransitionCmd(arrayIndex, layout) == [op |-> "transition", page |-> arrayIndex, layout |-> layout]

CopyImageToBufferCmd(arrayIndex) ==
    [op |-> "copyImageToBuffer", page |-> arrayIndex, layout |-> "TRANSFER_SRC_OPTIMAL"]

(* the GPU executes the recorded commands in order; st = [Layout, staging] is
   the layout of the page on the GPU timeline and the staging memory *)
RECURSIVE ExecuteCommands(_, _, _)
ExecuteCommands(recorded, k, st) ==
    IF k > Len(recorded) THEN st
    ELSE LET c == recorded[k] IN
         IF c.op = "transition"
         THEN ExecuteCommands(recorded, k + 1, [st EXCEPT !.Layout = c.layout])
         ELSE ExecuteCommands(recorded, k + 1,
                [st EXCEPT !.staging = IF st.Layout = c.layout THEN Texels(c.page)
                                       ELSE NoTexels])

(* DownloadLightmap(arrayIndex, buffer) up to copyImageToBuffer (lines 721-751) *)
DownloadLightmap(arrayIndex) ==
    /\ TexIdle
    /\ arrayIndex < Len(Lightmaps)
    /\ download' = [pc |-> "transition", arrayIndex |-> arrayIndex]
    /\ stagingBuffer' = NoTexels
    /\ buffer' = NoTexels
    /\ Lightmaps' = [Lightmaps EXCEPT ![arrayIndex + 1].Layout = "TRANSFER_SRC_OPTIMAL"]
    /\ transferCommands' = transferCommands
                             \o << TransitionCmd(arrayIndex, "TRANSFER_SRC_OPTIMAL"),
                                   CopyImageToBufferCmd(arrayIndex) >>
    /\ UNCHANGED << bakeVars, managerVars >>

(* lines 753-755 *)
DownloadTransition ==
    /\ download.pc = "transition"
    /\ download' = [download EXCEPT !.pc = "WaitForCommands"]
    /\ Lightmaps' = [Lightmaps EXCEPT ![download.arrayIndex + 1].Layout = "SHADER_READ_ONLY_OPTIMAL"]
    /\ transferCommands' = Append(transferCommands,
                                  TransitionCmd(download.arrayIndex, "SHADER_READ_ONLY_OPTIMAL"))
    /\ UNCHANGED << bakeVars, managerVars, stagingBuffer, buffer >>

(* line 757: fb->GetCommands()->WaitForCommands(false) submits the recorded
   commands and returns when the GPU has executed them all *)
WaitForCommandsNoDrain ==
    /\ download.pc = "WaitForCommands"
    /\ download' = [download EXCEPT !.pc = "memcpy"]
    /\ UNCHANGED << bakeVars, managerVars, Lightmaps, buffer, transferCommands, stagingBuffer >>

WaitForCommands ==
    /\ download.pc = "WaitForCommands"
    /\ download' = [download EXCEPT !.pc = "memcpy"]
    /\ stagingBuffer' = ExecuteCommands(transferCommands, 1,
                             [Layout |-> "SHADER_READ_ONLY_OPTIMAL",
                              staging |-> stagingBuffer]).staging
    /\ transferCommands' = << >>
    /\ UNCHANGED << bakeVars, managerVars, Lightmaps, buffer >>

(* lines 759-761: Map, memcpy, Unmap; DownloadLightmap returns *)
DownloadMemcpy ==
    /\ download.pc = "memcpy"
    /\ download' = [download EXCEPT !.pc = "none"]
    /\ buffer' = stagingBuffer
    /\ UNCHANGED << bakeVars, managerVars, Lightmaps, transferCommands, stagingBuffer >>

(* the level whose lightmaps the texture manager holds *)
TextureLevel ==
    [s \in Surfaces |-> [texWidth |-> 1, texHeight |-> 1, numVerts |-> 4,
                         lightCount |-> 1, sunDot |-> 1]]

TextureInit ==
    /\ Init
    /\ surf = TextureLevel
    /\ smoothingGroupIndex = [s \in Surfaces |-> 1]

CreateLightmapCall ==
    \E size \in 1..MaxLightmapSize, count \in 1..MaxLightmapCount : CreateLightmap(size, count)

SetLightmapCountCall ==
    \E size \in 1..MaxLightmapSize, count \in 0..MaxLightmapCount : SetLightmapCount(size, count)

DownloadLightmapCall == \E arrayIndex \in 0..(MaxLightmapCount - 1) : DownloadLightmap(arrayIndex)

TextureNext ==
    \/ (TexIdle /\ FrameSetLevelMesh)
    \/ (TexIdle /\ FrameBeginFrame)
    \/ (TexIdle /\ FrameRaytrace)
    \/ RenderBakeImage
    \/ ResolveBakeImage
    \/ BlurPass0
    \/ BlurPass1
    \/ CopyBakeImageResult
    \/ CreateLightmapCall
    \/ SetLightmapCountCall
    \/ DownloadLightmapCall
    \/ DownloadTransition
    \/ WaitForCommands
    \/ DownloadMemcpy

TextureSpec == TextureInit /\ [][TextureNext]_vars

(***************************************************************************)
(* VkTextureManager: the hardware textures and the pending uploads.        *)
(***************************************************************************)
MaxTextures == 2
MaxUploadID == 3

TextureIds == 1..MaxTextures

(* PendingUploads[id] = tex *)
InsertPending(pending, id, tex) ==
    [k \in DOMAIN pending \cup {id} |-> IF k = id THEN tex ELSE pending[k]]

(* PendingUploads.erase(it) *)
ErasePending(pending, id) == [k \in DOMAIN pending \ {id} |-> pending[k]]

(* the entries the loop of lines 83-90 can stop at *)
PendingOf(pending, texture) == { id \in DOMAIN pending : pending[id] = texture }

(* VkTextureManager::AddTexture: a texture object that was not registered
   before *)
AddTexture(texture) ==
    /\ texture \notin Textures \cup destroyed
    /\ Textures' = Textures \cup {texture}
    /\ UNCHANGED << bakeVars, Lightmaps, download, transferCommands, stagingBuffer, buffer,
                    PendingUploads, NextUploadID, destroyed, createdFor, workerVars >>

(* VkTextureManager::RemoveTexture: the loop erases the first entry it finds
   for the texture and breaks; which one is first is the iteration order of
   the container *)
RemoveTexture(texture) ==
    /\ texture \in Textures
    /\ Textures' = Textures \ {texture}
    /\ destroyed' = destroyed \cup {texture}
    /\ IF PendingOf(PendingUploads, texture) = {}
       THEN PendingUploads' = PendingUploads
       ELSE \E id \in PendingOf(PendingUploads, texture) :
               PendingUploads' = ErasePending(PendingUploads, id)
    /\ UNCHANGED << bakeVars, Lightmaps, download, transferCommands, stagingBuffer, buffer,
                    NextUploadID, createdFor, workerVars >>

(* VkTextureManager::CreateUploadID *)
CreateUploadID(tex) ==
    /\ tex \in Textures
    /\ NextUploadID <= MaxUploadID
    /\ NextUploadID' = NextUploadID + 1
    /\ PendingUploads' = InsertPending(PendingUploads, NextUploadID, tex)
    /\ createdFor' = InsertPending(createdFor, NextUploadID, tex)
    /\ UNCHANGED << bakeVars, Lightmaps, download, transferCommands, stagingBuffer, buffer,
                    Textures, destroyed, workerVars >>

(* VkTextureManager::CheckUploadID: its return value, and the call *)
CheckUploadIDResult(id) == id \in DOMAIN PendingUploads

CheckUploadID(id) ==
    /\ PendingUploads' = IF CheckUploadIDResult(id) THEN ErasePending(PendingUploads, id)
                         ELSE PendingUploads
    /\ UNCHANGED << bakeVars, Lightmaps, download, transferCommands, stagingBuffer, buffer,
                    Textures, NextUploadID, destroyed, createdFor, workerVars >>

AddTextureCall == \E texture \in TextureIds : AddTexture(texture)

RemoveTextureCall == \E texture \in TextureIds : RemoveTexture(texture)

CreateUploadIDCall == \E tex \in TextureIds : CreateUploadID(tex)

CheckUploadIDCall == \E id \in DOMAIN createdFor : CheckUploadID(id)

UploadNext ==
    \/ AddTextureCall
    \/ RemoveTextureCall
    \/ CreateUploadIDCall
    \/ CheckUploadIDCall

UploadSpec == TextureInit /\ [][UploadNext]_vars

(***************************************************************************)
(* VkTextureManager: the worker thread.  Three threads share Worker: the   *)
(* worker (WorkerThreadMain), a thread that submits tasks                  *)
(* (RunOnWorkerThread) and the thread that destroys the manager            *)
(* (StopWorkerThread).  Worker.Mutex names the thread that holds the       *)
(* mutex; a lock statement is a step that waits for "none".  A task is the *)
(* number of its submission.                                               *)
(***************************************************************************)
MaxTasks == 3

(* the variables outside the worker protocol *)
outsideWorker ==
    << bakeVars, Lightmaps, download, transferCommands, stagingBuffer, buffer, uploadVars >>

(* Worker.CondVar.notify_one() / notify_all(): there is one waiter at most,
   the worker, and it leaves the wait only when notified *)
Notified(thread) ==
    IF thread.pc = "blocked" THEN [thread EXCEPT !.pc = "woken"] ELSE thread

(* RunOnWorkerThread, line 782: std::unique_lock lock(Worker.Mutex) *)
RunOnWorkerThreadLock ==
    /\ submitThread = "idle"
    /\ stopThread # "stopped"
    /\ submitted < MaxTasks
    /\ Worker.Mutex = "none"
    /\ Worker' = [Worker EXCEPT !.Mutex = "submit"]
    /\ submitThread' = "push"
    /\ UNCHANGED << outsideWorker, workerThread, stopThread, executed, submitted >>

(* RunOnWorkerThread, lines 783-784: push_back and unlock *)
RunOnWorkerThreadPush ==
    /\ submitThread = "push"
    /\ Worker' = [Worker EXCEPT !.WorkerTasks = Append(@, submitted + 1), !.Mutex = "none"]
    /\ submitted' = submitted + 1
    /\ submitThread' = "notify"
    /\ UNCHANGED << outsideWorker, workerThread, stopThread, executed >>

(* RunOnWorkerThread, line 785: notify_one *)
RunOnWorkerThreadNotify ==
    /\ submitThread = "notify"
    /\ workerThread' = Notified(workerThread)
    /\ submitThread' = "idle"
    /\ UNCHANGED << outsideWorker, Worker, stopThread, executed, submitted >>

(* WorkerThreadMain, lines 827 and 856, and the re-acquisition at the end of
   CondVar.wait: the worker takes the mutex *)
WorkerLock ==
    /\ workerThread.pc \in {"start", "woken", "relock"}
    /\ Worker.Mutex = "none"
    /\ Worker' = [Worker EXCEPT !.Mutex = "worker"]
    /\ workerThread' = [workerThread EXCEPT !.pc = "wait"]
    /\ UNCHANGED << outsideWorker, stopThread, submitThread, executed, submitted >>

(* WorkerThreadMain, lines 830-841, with the mutex held: the predicate of
   the wait, then the stop test or the pop.  A false predicate releases the
   mutex and blocks in one step; leaving the loop releases the mutex when
   the lock goes out of scope; a popped task releases it at line 845 *)
WorkerWait ==
    /\ workerThread.pc = "wait"
    /\ IF ~(Worker.StopFlag \/ Worker.WorkerTasks # << >>)
       THEN /\ workerThread' = [workerThread EXCEPT !.pc = "blocked"]
            /\ Worker' = [Worker EXCEPT !.Mutex = "none"]
       ELSE IF Worker.StopFlag
       THEN /\ workerThread' = [workerThread EXCEPT !.pc = "done"]
            /\ Worker' = [Worker EXCEPT !.Mutex = "none"]
       ELSE /\ workerThread' = [pc |-> "task", task |-> Head(Worker.WorkerTasks)]
            /\ Worker' = [Worker EXCEPT !.WorkerTasks = Tail(@), !.Mutex = "none"]
    /\ UNCHANGED << outsideWorker, stopThread, submitThread, executed, submitted >>

(* WorkerThreadMain, lines 847-855: task() returns, or throws and the catch
   block is entered *)
WorkerRunTask ==
    /\ workerThread.pc = "task"
    /\ executed' = Append(executed, workerThread.task)
    /\ \E outcome \in {"relock", "rethrow"} :
          workerThread' = [pc |-> outcome, task |-> workerThread.task]
    /\ UNCHANGED << outsideWorker, Worker, stopThread, submitThread, submitted >>

(* RunOnMainThread, lines 788-792, called from the catch block: lock,
   push_back, unlock at the end of the scope *)
RunOnMainThread ==
    /\ workerThread.pc = "rethrow"
    /\ Worker.Mutex = "none"
    /\ Worker' = [Worker EXCEPT !.MainTasks = Append(@, workerThread.task)]
    /\ workerThread' = [workerThread EXCEPT !.pc = "relock"]
    /\ UNCHANGED << outsideWorker, stopThread, submitThread, executed, submitted >>

(* ProcessMainThreadTasks, lines 812-823, on the thread that later destroys
   the manager: the swap under the mutex empties MainTasks *)
ProcessMainThreadTasks ==
    /\ stopThread = "running"
    /\ Worker.MainTasks # << >>
    /\ Worker.Mutex = "none"
    /\ Worker' = [Worker EXCEPT !.MainTasks = << >>]
    /\ UNCHANGED << outsideWorker, workerThread, stopThread, submitThread, executed,
                    submitted >>

(* ~VkTextureManager, line 45: StopWorkerThread is called *)
StopWorkerThreadCall ==
    /\ stopThread = "running"
    /\ stopThread' = "lock"
    /\ UNCHANGED << outsideWorker, Worker, workerThread, submitThread, executed, submitted >>

(* StopWorkerThread, line 801: std::unique_lock lock(Worker.Mutex) *)
StopLock ==
    /\ stopThread = "lock"
    /\ Worker.Mutex = "none"
    /\ Worker' = [Worker EXCEPT !.Mutex = "stop"]
    /\ stopThread' = "flag"
    /\ UNCHANGED << outsideWorker, workerThread, submitThread, executed, submitted >>

(* StopWorkerThread without the unlock of line 803: the mutex stays with the
   stopping thread while it waits in join *)
StopSetFlagKeepsMutex ==
    /\ stopThread = "flag"
    /\ Worker' = [Worker EXCEPT !.StopFlag = TRUE]
    /\ stopThread' = "notify"
    /\ UNCHANGED << outsideWorker, workerThread, submitThread, executed, submitted >>

(* StopWorkerThread, lines 802-803: StopFlag = true; lock.unlock() *)
StopSetFlag ==
    /\ stopThread = "flag"
    /\ Worker' = [Worker EXCEPT !.StopFlag = TRUE, !.Mutex = "none"]
    /\ stopThread' = "notify"
    /\ UNCHANGED << outsideWorker, workerThread, submitThread, executed, submitted >>

(* StopWorkerThread, line 804: notify_all *)
StopNotify ==
    /\ stopThread = "notify"
    /\ workerThread' = Notified(workerThread)
    /\ stopThread' = "join"
    /\ UNCHANGED << outsideWorker, Worker, submitThread, executed, submitted >>

(* StopWorkerThread, line 805: Worker.Thread.join() returns when
   WorkerThreadMain has returned *)
StopJoin ==
    /\ stopThread = "join"
    /\ workerThread.pc = "done"
    /\ stopThread' = "relock"
    /\ UNCHANGED << outsideWorker, Worker, workerThread, submitThread, executed, submitted >>

(* StopWorkerThread, lines 806-809: lock.lock(), both queues cleared, the
   flag reset, and the mutex released on return *)
StopClear ==
    /\ stopThread = "relock"
    /\ Worker.Mutex = "none"
    /\ Worker' = [Worker EXCEPT !.WorkerTasks = << >>, !.MainTasks = << >>,
                                !.StopFlag = FALSE]
    /\ stopThread' = "stopped"
    /\ UNCHANGED << outsideWorker, workerThread, submitThread, executed, submitted >>

(* the steps of WorkerThreadMain *)
WorkerThreadMain == WorkerLock \/ WorkerWait \/ WorkerRunTask \/ RunOnMainThread

(* the steps of StopWorkerThread after the call *)
StopWorkerThread == StopLock \/ StopSetFlag \/ StopNotify \/ StopJoin \/ StopClear

(* the steps of RunOnWorkerThread after its lock statement *)
RunOnWorkerThread == RunOnWorkerThreadPush \/ RunOnWorkerThreadNotify

WorkerNext ==
    \/ RunOnWorkerThreadLock
    \/ RunOnWorkerThreadPush
    \/ RunOnWorkerThreadNotify
    \/ WorkerLock
    \/ WorkerWait
    \/ WorkerRunTask
    \/ RunOnMainThread
    \/ ProcessMainThreadTasks
    \/ StopWorkerThreadCall
    \/ StopLock
    \/ StopSetFlag
    \/ StopNotify
    \/ StopJoin
    \/ StopClear

(* every thread that can take a step eventually takes one, and a task that
   was started returns or throws *)
WorkerSpec ==
    /\ TextureInit
    /\ [][WorkerNext]_vars
    /\ WF_workerVars(WorkerThreadMain)
    /\ WF_workerVars(StopWorkerThread)
    /\ WF_workerVars(RunOnWorkerThread)

(***************************************************************************)
(* The arenas under load: a level of small surfaces that all fit the       *)
(* canvas together, so that only the vertex and light arenas limit an      *)
(* invocation.  A surface also has the Type the trace stage branches on    *)
(* when it writes the vertices of a draw (line 215).                       *)
(***************************************************************************)
ArenaKinds ==
    { [texWidth |-> 1, texHeight |-> 1, numVerts |-> 4, lightCount |-> 1, sunDot |-> 1,
       Type |-> "ST_MIDDLESIDE"],
      [texWidth |-> 1, texHeight |-> 1, numVerts |-> 6, lightCount |-> 2, sunDot |-> 1,
       Type |-> "ST_FLOOR"],
      [texWidth |-> 1, texHeight |-> 1, numVerts |-> 3, lightCount |-> 0, sunDot |-> 1,
       Type |-> "ST_CEILING"] }

(* the engine after construction, whatever the level *)
Constructed ==
    /\ needsUpdate = [s \in Surfaces |-> TRUE]
    /\ mesh = "null"
    /\ pc = "idle"
    /\ surfaces = << >>
    /\ verticesPos = 0
    /\ lightsPos = 0
    /\ selectedSurfaces = << >>
    /\ bakeImage = [maxX |-> 0, maxY |-> 0]
    /\ buffersFull = FALSE
    /\ lastSurfaceCount = 0
    /\ lastPixelCount = 0
    /\ totalPixelCount = 0
    /\ cmds = << >>
    /\ invocations = 0
    /\ marks = 0
    /\ callsThisFrame = 0
    /\ dirtyAtStart = [s \in Surfaces |-> FALSE]
    /\ renderedArea = 0
    /\ renderedAreaLevel = 0
    /\ Lightmaps = CreatedLightmaps(1, 1)
    /\ download = [pc |-> "none", arrayIndex |-> 0]
    /\ transferCommands = << >>
    /\ stagingBuffer = NoTexels
    /\ buffer = NoTexels
    /\ ManagerConstructed

ArenaInit ==
    /\ surf \in [Surfaces -> ArenaKinds]
    /\ smoothingGroupIndex \in SmoothingGroupLayouts
    /\ Constructed

ArenaSpec == ArenaInit /\ [][Next]_vars

(* the vertex records a draw of `surface' writes, lines 213-228, with the
   floor/ceiling loop running one record too far (idx <= vertexCount) *)
WrittenVerticesOneMore(surface, firstVertex) ==
    IF surf[surface].Type = "ST_FLOOR" \/ surf[surface].Type = "ST_CEILING"
    THEN { firstVertex + idx : idx \in 0..surf[surface].numVerts }
    ELSE { firstVertex + idx : idx \in 0..3 }

(* the vertex records a draw of `surface' writes, lines 213-228: vertex
   starts at &vertices.Vertices[firstVertex] and is advanced once per write;
   a floor or ceiling writes numVerts records, any other surface the four
   corners of its quad (MeshVertices[startVertIndex + 0, 2, 3, 1]) *)
WrittenVertices(surface, firstVertex) ==
    IF surf[surface].Type = "ST_FLOOR" \/ surf[surface].Type = "ST_CEILING"
    THEN { firstVertex + idx : idx \in 0..(surf[surface].numVerts - 1) }
    ELSE { firstVertex + idx : idx \in 0..3 }

(* the light records a draw writes, lines 190-202: one per entry of the
   surface's LightList from &lights.Lights[firstLight] on *)
WrittenLights(surface, firstLight) ==
    { firstLight + idx : idx \in 0..(surf[surface].lightCount - 1) }

(***************************************************************************)
(* Properties.                                                             *)
(***************************************************************************)
SelIdx == 1..Len(selectedSurfaces)

CmdIdx == 1..Len(cmds)

Rendered(j) == selectedSurfaces[j].Rendered

(* a trace draw was recorded into the rectangle of selectedSurfaces[j] *)
HasDraw(j) ==
    \E c \in CmdIdx : /\ cmds[c].op = "draw"
                      /\ cmds[c].stage = "trace"
                      /\ cmds[c].target = selectedSurfaces[j].Surface

(* a copy region reads the rectangle of selectedSurfaces[j] *)
HasCopy(j) ==
    \E c \in CmdIdx :
        /\ cmds[c].op = "copyImage"
        /\ \E r \in 1..Len(cmds[c].regions) :
              /\ cmds[c].regions[r].srcX = selectedSurfaces[j].X
              /\ cmds[c].regions[r].srcY = selectedSurfaces[j].Y

(* C1: the geometry arena position never exceeds the vertex buffer capacity
   and the light arena position never exceeds the light buffer capacity, in
   every state of every invocation. *)
C1_ArenaWithinCapacity ==
    /\ verticesPos <= verticesBufferSize
    /\ lightsPos <= lightsBufferSize

(* C2: when the trace stage ran out of arena space, the invocation ends with
   every selected surface either rendered with needsUpdate false, or not
   rendered with needsUpdate true. *)
C2_RequeueConsistent ==
    \A j \in SelIdx : Rendered(j) = ~needsUpdate[selectedSurfaces[j].Surface]

C2_OverflowRequeue ==
    [][(pc = "CopyBakeImageResult" /\ buffersFull) => C2_RequeueConsistent']_vars

C2_Witness ==
    /\ pc = "CopyBakeImageResult"
    /\ buffersFull
    /\ \E j \in SelIdx : Rendered(j)
    /\ \E j, k \in SelIdx : j # k /\ ~Rendered(j) /\ ~Rendered(k)

(* C3 as stated: after an overflow no selected surface that is not rendered
   has a draw or a copy recorded for it. *)
C3_NoDrawNoCopyForRequeued ==
    buffersFull => \A j \in SelIdx : ~Rendered(j) => ~HasDraw(j) /\ ~HasCopy(j)

(* C3 amended: after an overflow no selected surface that is not rendered
   has a copy recorded for it, and only the first of them (the one whose
   smoothing group did not fit) can have draws recorded for it. *)
C3_NoCopyAndDrawsOnlyForOffender ==
    buffersFull =>
        \A j \in SelIdx :
            ~Rendered(j) => /\ ~HasCopy(j)
                            /\ HasDraw(j) => \A k \in 1..(j - 1) : Rendered(k)

C3_Witness ==
    /\ pc = "idle"
    /\ buffersFull
    /\ \E c \in CmdIdx : cmds[c].op = "copyImage"
    /\ \E j, k \in SelIdx : j < k /\ ~Rendered(j) /\ HasDraw(j) /\ ~Rendered(k)

(* C4: the padded rectangles of two distinct selected surfaces, each at the
   packer's position with size (texWidth+2) x (texHeight+2), do not
   intersect and lie at least `spacing' apart. *)
PadX0(j) == selectedSurfaces[j].X - 1
PadY0(j) == selectedSurfaces[j].Y - 1
PadX1(j) == PadX0(j) + surf[selectedSurfaces[j].Surface].texWidth + 2
PadY1(j) == PadY0(j) + surf[selectedSurfaces[j].Surface].texHeight + 2

C4_NoOverlap ==
    \A j, k \in SelIdx :
        j # k => \/ PadX1(j) + spacing <= PadX0(k)
                 \/ PadX1(k) + spacing <= PadX0(j)
                 \/ PadY1(j) + spacing <= PadY0(k)
                 \/ PadY1(k) + spacing <= PadY0(j)

C4_Witness ==
    /\ pc = "RenderBakeImage"
    /\ Len(selectedSurfaces) >= 2
    /\ \E j, k \in SelIdx : PadY0(j) # PadY0(k)
    /\ \E s \in Surfaces : dirtyAtStart[s] /\ needsUpdate[s]

(* C5 as stated: every Raytrace call starts with both arena positions at
   zero. *)
C5_EveryCallStartsAtZero ==
    [][RaytraceCall => (verticesPos = 0 /\ lightsPos = 0)]_vars

(* C5 amended: the first Raytrace call after BeginFrame (or after
   construction) starts with both arena positions at zero, and every call
   with a non-empty argument builds its selection and used extent anew: only
   surfaces that were dirty at the call, none rendered, the extent the
   maximum over exactly these. *)
ExtentX(e) == e.X + surf[e.Surface].texWidth + spacing
ExtentY(e) == e.Y + surf[e.Surface].texHeight + spacing

FreshSelection(before, sel, image) ==
    /\ \A j \in 1..Len(sel) : ~sel[j].Rendered /\ before[sel[j].Surface]
    /\ \A j, k \in 1..Len(sel) : j # k => sel[j].Surface # sel[k].Surface
    /\ \A j \in 1..Len(sel) : image.maxX >= ExtentX(sel[j]) /\ image.maxY >= ExtentY(sel[j])
    /\ IF sel = << >>
       THEN image.maxX = 0 /\ image.maxY = 0
       ELSE /\ \E j \in 1..Len(sel) : image.maxX = ExtentX(sel[j])
            /\ \E j \in 1..Len(sel) : image.maxY = ExtentY(sel[j])

C5_FrameStartsAtZero ==
    [][\A input \in InputLists :
          Raytrace(input) =>
             /\ callsThisFrame = 0 => (verticesPos = 0 /\ lightsPos = 0)
             /\ input # << >> => FreshSelection(needsUpdate, selectedSurfaces', bakeImage')]_vars

C5_Witness ==
    /\ pc = "RenderBakeImage"
    /\ invocations >= 2
    /\ callsThisFrame = 1
    /\ verticesPos = 0
    /\ Len(selectedSurfaces) < Cardinality({s \in Surfaces : dirtyAtStart[s]})

(* C6 as stated: totalPixelCount never decreases. *)
C6_NeverDecreases ==
    [][totalPixelCount' >= totalPixelCount]_vars

(* C6 amended: totalPixelCount decreases only when SetLevelMesh resets it to
   zero or when the addition of an invocation's pixel count wraps around the
   width of the counter. *)
C6_DecreasesOnlyOnResetOrWrap ==
    [][\/ totalPixelCount' >= totalPixelCount
       \/ (SetLevelMesh /\ totalPixelCount' = 0)
       \/ (CopyBakeImageResult /\ totalPixelCount + lastPixelCount' >= PixelCountMod
                               /\ totalPixelCount' = totalPixelCount + lastPixelCount' - PixelCountMod)]_vars

C6_Witness ==
    /\ pc = "idle"
    /\ invocations >= 2
    /\ lastPixelCount > 0
    /\ totalPixelCount > lastPixelCount

(* C7 as stated: after every invocation totalPixelCount is the summed area of
   all surfaces marked rendered since construction. *)
C7_TotalIsLifetimeSum ==
    pc = "idle" => totalPixelCount = renderedArea

(* C7 amended: after every invocation totalPixelCount is the summed area of
   all surfaces marked rendered since the last SetLevelMesh, modulo the width
   of the counter. *)
C7_TotalIsSumSinceLevel ==
    pc = "idle" => totalPixelCount = renderedAreaLevel % PixelCountMod

C7_Witness ==
    /\ pc = "idle"
    /\ invocations >= 2
    /\ renderedAreaLevel > lastPixelCount
    /\ lastPixelCount > 0
    /\ \E j \in SelIdx : ~Rendered(j)

(* C8 as stated: when every surface is smaller than the canvas, after as
   many invocations (one per frame) as there are surfaces every surface has
   had needsUpdate false at the end of an invocation. *)
AllSmallerThanCanvas ==
    \A s \in Surfaces : surf[s].texWidth < bakeImageSize /\ surf[s].texHeight < bakeImageSize

AllCleanOnce == \A s \in Surfaces : ~needsUpdate[s]

C8_CleanWithinSurfaceCount ==
    (AllSmallerThanCanvas /\ invocations >= NumSurfaces /\ pc = "idle") => AllCleanOnce

(* C8 amended: the same, when every padded rectangle (texWidth+2) x
   (texHeight+2) fits the canvas and the summed vertex and light counts of
   every smoothing group fit the empty arenas. *)
PaddedFitCanvas ==
    \A s \in Surfaces : surf[s].texWidth + 2 <= bakeImageSize /\ surf[s].texHeight + 2 <= bakeImageSize

RECURSIVE SumVerts(_)
SumVerts(S) ==
    IF S = {} THEN 0
    ELSE LET s == CHOOSE x \in S : TRUE IN surf[s].numVerts + SumVerts(S \ {s})

RECURSIVE SumLights(_)
SumLights(S) ==
    IF S = {} THEN 0
    ELSE LET s == CHOOSE x \in S : TRUE IN surf[s].lightCount + SumLights(S \ {s})

GroupMembers(s) == { t \in Surfaces : smoothingGroupIndex[t] = smoothingGroupIndex[s] }

GroupsFitArenas ==
    \A s \in Surfaces : /\ SumVerts(GroupMembers(s)) <= verticesBufferSize
                        /\ SumLights(GroupMembers(s)) <= lightsBufferSize

C8_CleanWithinSurfaceCountWhenFits ==
    (PaddedFitCanvas /\ GroupsFitArenas /\ invocations >= NumSurfaces /\ pc = "idle")
        => AllCleanOnce

C8_Witness ==
    /\ PaddedFitCanvas
    /\ GroupsFitArenas
    /\ invocations = NumSurfaces
    /\ pc = "idle"
    /\ AllCleanOnce
    /\ lastSurfaceCount >= 1

(* C9: the commands of an invocation are recorded stage by stage in the order
   trace, resolve, blur pass 0, blur pass 1, copy-back; every read of an image
   (a descriptor binding of resolve or blur, the atlas copy) comes after a
   barrier on that image, which comes after the render pass of the preceding
   stage that wrote the image, with no later write in between. *)
StageRank(stage) ==
    CASE stage = "uniforms" -> 0
      [] stage = "trace" -> 1
      [] stage = "resolve" -> 2
      [] stage = "blur0" -> 3
      [] stage = "blur1" -> 4
      [] stage = "copy" -> 5

IsRead(c) == cmds[c].op = "bindDescriptorSet" \/ cmds[c].op = "copyImage"

IsWriteOf(c, image) == cmds[c].op = "beginRenderPass" /\ cmds[c].image = image

BarrierBeforeRead(j) ==
    \E i \in 1..(j - 1) :
        /\ cmds[i].op = "barrier" /\ cmds[i].image = cmds[j].image
        /\ \A k \in (i + 1)..(j - 1) : ~IsWriteOf(k, cmds[j].image)
        /\ \E w \in 1..(i - 1) :
              /\ IsWriteOf(w, cmds[j].image)
              /\ StageRank(cmds[w].stage) = StageRank(cmds[j].stage) - 1
              /\ \E e \in (w + 1)..(i - 1) :
                    cmds[e].op = "endRenderPass" /\ cmds[e].stage = cmds[w].stage

StagesOf == { cmds[c].stage : c \in CmdIdx }

PcRank ==
    CASE pc = "RenderBakeImage" -> 0
      [] pc = "ResolveBakeImage" -> 1
      [] pc = "BlurPass0" -> 2
      [] pc = "BlurPass1" -> 3
      [] pc = "CopyBakeImageResult" -> 4
      [] pc = "idle" -> 5

C9_StagesOrderedByBarriers ==
    /\ \A c \in 1..(Len(cmds) - 1) : StageRank(cmds[c].stage) <= StageRank(cmds[c + 1].stage)
    /\ \A j \in CmdIdx : IsRead(j) => BarrierBeforeRead(j)
    /\ cmds # << >> =>
          /\ \A r \in 1..4 : (r <= PcRank) <=> (\E c \in CmdIdx : StageRank(cmds[c].stage) = r)
          /\ \A c \in CmdIdx : StageRank(cmds[c].stage) <= PcRank
          /\ selectedSurfaces # << >>

C9_Witness ==
    /\ pc = "idle"
    /\ \E c \in CmdIdx : cmds[c].op = "copyImage"
    /\ \E j \in SelIdx : ~Rendered(j)

(* C10: a Raytrace call on a non-empty list selects exactly the surfaces of
   the list that need an update and that the packer, fed with the candidates
   before them in list order, places on the canvas page; it clears needsUpdate
   of exactly these and leaves every other surface as it was. *)
RECURSIVE PagesAfter(_, _, _)
PagesAfter(input, n, nu) ==
    IF n = 0 THEN << EmptyPage >>
    ELSE LET before == PagesAfter(input, n - 1, nu)
             s == input[n]
         IN IF nu[s]
            THEN PackerInsert(before, surf[s].texWidth + 2, surf[s].texHeight + 2).pages
            ELSE before

FitsInTurn(input, n, nu) ==
    PackerInsert(PagesAfter(input, n - 1, nu),
                 surf[input[n]].texWidth + 2, surf[input[n]].texHeight + 2).pageIndex = 0

IsSelected(sel, s) == \E j \in 1..Len(sel) : sel[j].Surface = s

SelectPost(input, before, after, sel) ==
    /\ \A n \in 1..Len(input) :
          IsSelected(sel, input[n]) <=> (before[input[n]] /\ FitsInTurn(input, n, before))
    /\ \A s \in Surfaces :
          /\ IsSelected(sel, s) => (before[s] /\ ~after[s] /\ \E n \in 1..Len(input) : input[n] = s)
          /\ ~IsSelected(sel, s) => after[s] = before[s]

C10_SelectsDirtyThatFit ==
    [][\A input \in InputLists :
          (Raytrace(input) /\ input # << >>)
             => SelectPost(input, needsUpdate, needsUpdate', selectedSurfaces')]_vars

C10_Witness ==
    /\ pc = "RenderBakeImage"
    /\ \E s \in Surfaces : ~dirtyAtStart[s]
    /\ \E m, n \in 1..Len(surfaces) :
          /\ m < n
          /\ dirtyAtStart[surfaces[m]] /\ needsUpdate[surfaces[m]]
          /\ IsSelected(selectedSurfaces, surfaces[n])

(* the commands of a finished or running invocation are recorded: the
   selection is the one these commands were recorded for *)
Recorded == cmds # << >>

InvocationDone == pc = "idle" /\ Recorded

(* a surface with an empty light list whose plane faces away from the sun *)
UnlitBackFacing(s) == surf[s].lightCount = 0 /\ surf[s].sunDot < 0

RECURSIVE TraceVertices(_, _)
TraceVertices(recorded, k) ==
    IF k > Len(recorded) THEN 0
    ELSE (IF recorded[k].op = "draw" /\ recorded[k].stage = "trace"
          THEN recorded[k].vertexCount ELSE 0) + TraceVertices(recorded, k + 1)

RECURSIVE TraceLights(_, _)
TraceLights(recorded, k) ==
    IF k > Len(recorded) THEN 0
    ELSE (IF recorded[k].op = "draw" /\ recorded[k].stage = "trace"
          THEN recorded[k].lightEnd - recorded[k].lightStart ELSE 0)
         + TraceLights(recorded, k + 1)

(* the trace stage advances the arenas by the vertices and lights of its
   draws and by nothing else *)
ArenasAdvanceByDraws ==
    /\ verticesPos' = verticesPos + TraceVertices(cmds', 1)
    /\ lightsPos' = lightsPos + TraceLights(cmds', 1)

(* C11 as stated: a selected surface with an empty light list whose plane
   faces away from the sun is marked rendered by the trace stage, no draw is
   recorded for it, and Copy-back copies its rectangle in the same
   invocation. *)
C11_SkippedIsRenderedAndCopied ==
    \A j \in SelIdx :
        UnlitBackFacing(selectedSurfaces[j].Surface) =>
            /\ ~HasDraw(j)
            /\ Recorded => Rendered(j)
            /\ InvocationDone => HasCopy(j)

(* C11 amended: no draw is ever recorded for such a surface and the arenas
   advance only by the draws of the trace stage; the surface is marked
   rendered, and copied by Copy-back in the same invocation, exactly when the
   trace stage reaches it, that is when every selection before it was
   rendered; when an earlier selection overflowed an arena it is re-queued and
   not copied. *)
SkippedWhenReached ==
    \A j \in SelIdx :
        UnlitBackFacing(selectedSurfaces[j].Surface) =>
            /\ ~HasDraw(j)
            /\ Recorded => (Rendered(j) <=> \A k \in 1..(j - 1) : Rendered(k))
            /\ (Recorded /\ ~Rendered(j)) =>
                   (buffersFull /\ needsUpdate[selectedSurfaces[j].Surface])
            /\ InvocationDone => (HasCopy(j) <=> Rendered(j))

C11_SkippedIsRenderedWhenReached ==
    /\ []SkippedWhenReached
    /\ [][RenderBakeImage => ArenasAdvanceByDraws]_vars

C11_Witness ==
    /\ InvocationDone
    /\ \E j, k \in SelIdx :
          /\ UnlitBackFacing(selectedSurfaces[j].Surface)
          /\ Rendered(j) /\ HasCopy(j) /\ ~HasDraw(j)
          /\ k < j /\ HasDraw(k)
          /\ verticesPos > 3 * QuadVertexCount

(* C12: when no surface was rendered in an invocation, because nothing was
   selected or because every selected surface was re-queued, Copy-back records
   no copy and no barrier, so that no command touches an atlas page. *)
NoneRendered == \A j \in SelIdx : ~Rendered(j)

TouchesAtlas(c) ==
    \/ cmds[c].stage = "copy"
    \/ cmds[c].op = "copyImage"
    \/ cmds[c].image = "lightmap"
    \/ \E i \in 1..Len(cmds[c].transitions) : cmds[c].transitions[i].image = "lightmap"

C12_NoCopyWhenNothingRendered ==
    /\ [](NoneRendered => \A c \in CmdIdx : ~TouchesAtlas(c))
    /\ [][(CopyBakeImageResult /\ NoneRendered) => cmds' = cmds]_vars
    /\ [][\A input \in InputLists :
             (Raytrace(input) /\ (input = << >> \/ selectedSurfaces' = << >>))
                => (pc' = "idle" /\ cmds' = << >>)]_vars

C12_Witness ==
    /\ InvocationDone
    /\ Len(selectedSurfaces) >= 2
    /\ NoneRendered
    /\ \A j \in SelIdx : needsUpdate[selectedSurfaces[j].Surface]
    /\ \E c \in CmdIdx : cmds[c].stage = "blur1"

(* the transitions of `image' (array layer `page') to `newLayout' that the
   barriers of the copy-back stage carry *)
CopyTransitions(image, page, newLayout) ==
    { ci \in CmdIdx \X (1..(NumSurfaces + 1)) :
        /\ cmds[ci[1]].op = "barrier" /\ cmds[ci[1]].stage = "copy"
        /\ ci[2] <= Len(cmds[ci[1]].transitions)
        /\ cmds[ci[1]].transitions[ci[2]].image = image
        /\ cmds[ci[1]].transitions[ci[2]].page = page
        /\ cmds[ci[1]].transitions[ci[2]].newLayout = newLayout }

AtlasPages == 0..NumSurfaces

PagesReceiving ==
    { AtlasPlacement(selectedSurfaces[j].Surface).atlasPageIndex :
        j \in { k \in SelIdx : Rendered(k) } }

OncePerTouchedPage ==
    \A q \in AtlasPages :
        LET n == IF q \in PagesReceiving THEN 1 ELSE 0 IN
        /\ Cardinality(CopyTransitions("lightmap", q, "TRANSFER_DST_OPTIMAL")) = n
        /\ Cardinality(CopyTransitions("lightmap", q, "SHADER_READ_ONLY_OPTIMAL")) = n
        /\ \A a \in CopyTransitions("lightmap", q, "TRANSFER_DST_OPTIMAL"),
              b \in CopyTransitions("lightmap", q, "SHADER_READ_ONLY_OPTIMAL") :
              \E c \in (a[1] + 1)..(b[1] - 1) : cmds[c].op = "copyImage"

(* C13 as stated: in every invocation Copy-back moves each atlas page that
   receives a surface to copy-destination once and back to shader-readable
   once, no other page at all, and the canvas to copy-source once. *)
C13_CanvasTransitionedOnce ==
    InvocationDone =>
        /\ OncePerTouchedPage
        /\ Cardinality(CopyTransitions("resolve", 0, "TRANSFER_SRC_OPTIMAL")) = 1

(* C13 amended: the same for the atlas pages; the canvas is moved to
   copy-source once when at least one surface was rendered and not at all
   when none was. *)
C13_TransitionsOncePerTouchedPage ==
    InvocationDone =>
        /\ OncePerTouchedPage
        /\ Cardinality(CopyTransitions("resolve", 0, "TRANSFER_SRC_OPTIMAL"))
              = IF PagesReceiving = {} THEN 0 ELSE 1

C13_Witness ==
    /\ InvocationDone
    /\ \E j, k \in SelIdx :
          /\ j # k /\ Rendered(j) /\ Rendered(k)
          /\ AtlasPlacement(selectedSurfaces[j].Surface).atlasPageIndex
               = AtlasPlacement(selectedSurfaces[k].Surface).atlasPageIndex
    /\ \E s \in Surfaces : AtlasPlacement(s).atlasPageIndex \notin PagesReceiving

(* the surfaces Copy-back finds rendered, and their summed area as the
   unsigned counter holds it *)
RenderedCount == Cardinality({ j \in SelIdx : Rendered(j) })

RenderedPixels == SumArea(RenderedSet(selectedSurfaces)) % PixelCountMod

CopyBackSetsLastCounts ==
    [][CopyBakeImageResult =>
          (lastSurfaceCount' = RenderedCount /\ lastPixelCount' = RenderedPixels)]_vars

(* C14: after every call of Raytrace, also one that finds no dirty surface
   and so renders nothing, lastSurfaceCount is the number of surfaces marked
   rendered in that call and lastPixelCount the sum of their areas. *)
C14_LastCountsAfterEveryCall ==
    /\ CopyBackSetsLastCounts
    /\ [][\A input \in InputLists :
             (Raytrace(input) /\ pc' = "idle")
                => (lastSurfaceCount' = 0 /\ lastPixelCount' = 0)]_vars

(* C15: when an arena overflows mid-batch the trace stage halts: the
   selections before the offending one are rendered, the offending one and
   all after it are left unrendered with needsUpdate true and those after it
   without a draw, and Copy-back leaves lastSurfaceCount equal to the number
   of selections before the offending one. *)
HaltedAt(i) ==
    /\ \A k \in 1..(i - 1) : Rendered(k)
    /\ \A k \in i..Len(selectedSurfaces) :
          ~Rendered(k) /\ needsUpdate[selectedSurfaces[k].Surface]
    /\ \A k \in (i + 1)..Len(selectedSurfaces) : ~HasDraw(k)

C15_OverflowCountsProcessed ==
    [][(CopyBakeImageResult /\ buffersFull) =>
          \E i \in SelIdx : HaltedAt(i) /\ lastSurfaceCount' = i - 1 /\ pc' = "idle"]_vars

C15_Witness ==
    /\ InvocationDone
    /\ buffersFull
    /\ Len(selectedSurfaces) = NumSurfaces
    /\ lastSurfaceCount = 1
    /\ Rendered(1) /\ HasDraw(2)

(* the invocation that is about to run Copy-back: the surfaces that were
   dirty when it started, and what its call was given *)
DirtyAtStart == { s \in Surfaces : dirtyAtStart[s] }

AllDirtyListed == \A s \in DirtyAtStart : \E n \in 1..Len(surfaces) : surfaces[n] = s

AllDirtyFitCanvas ==
    \A n \in 1..Len(surfaces) :
        dirtyAtStart[surfaces[n]] => FitsInTurn(surfaces, n, dirtyAtStart)

DirtyGroupsFitArenas ==
    \A s \in DirtyAtStart : /\ SumVerts(GroupMembers(s)) <= verticesBufferSize
                             /\ SumLights(GroupMembers(s)) <= lightsBufferSize

(* the members of the smoothing group of `target' that the trace stage
   draws into its rectangle *)
DrawnFor(target) == { m \in GroupMembers(target) : ~BoundsNotVisible(m, target) }

RECURSIVE DemandVerts(_)
DemandVerts(S) ==
    IF S = {} THEN 0
    ELSE LET s == CHOOSE x \in S : TRUE
         IN (IF UnlitBackFacing(s) THEN 0 ELSE SumVerts(DrawnFor(s))) + DemandVerts(S \ {s})

RECURSIVE DemandLights(_)
DemandLights(S) ==
    IF S = {} THEN 0
    ELSE LET s == CHOOSE x \in S : TRUE
         IN (IF UnlitBackFacing(s) THEN 0 ELSE SumLights(DrawnFor(s))) + DemandLights(S \ {s})

(* the arena positions the invocation started with, before its trace draws
   and its three full-screen quads *)
StartVerticesPos == verticesPos - 3 * QuadVertexCount - TraceVertices(cmds, 1)

StartLightsPos == lightsPos - TraceLights(cmds, 1)

TraceDemandFits ==
    /\ StartVerticesPos + DemandVerts(DirtyAtStart) <= verticesBufferSize
    /\ StartLightsPos + DemandLights(DirtyAtStart) <= lightsBufferSize

AllDirtyBaked ==
    /\ \A s \in DirtyAtStart : \E j \in SelIdx : selectedSurfaces[j].Surface = s /\ Rendered(j)
    /\ C4_NoOverlap
    /\ lastSurfaceCount' = Cardinality(DirtyAtStart)
    /\ lastPixelCount' = SumArea(DirtyAtStart) % PixelCountMod

(* C16 as stated: when all dirty surfaces together fit the canvas and the
   vertices and lights of each of their smoothing groups fit the arenas, one
   invocation selects them all without overlap, renders them all and leaves
   lastSurfaceCount and lastPixelCount at their number and summed area. *)
C16_OneInvocationWhenGroupsFit ==
    [][(CopyBakeImageResult /\ AllDirtyListed /\ AllDirtyFitCanvas /\ DirtyGroupsFitArenas)
          => AllDirtyBaked]_vars

(* C16 amended: the same when the arenas have room, from the positions the
   invocation starts with, for everything the trace stage appends: for each
   dirty surface that is not skipped, the vertices and lights of every member
   of its smoothing group drawn into its rectangle, counted once per target. *)
C16_OneInvocationWhenDemandFits ==
    [][(CopyBakeImageResult /\ AllDirtyListed /\ AllDirtyFitCanvas /\ TraceDemandFits)
          => AllDirtyBaked]_vars

C16_Witness ==
    /\ InvocationDone
    /\ ~buffersFull
    /\ Len(selectedSurfaces) = NumSurfaces
    /\ \A j \in SelIdx : Rendered(j)
    /\ lastSurfaceCount = NumSurfaces
    /\ lastPixelCount = RenderedPixels
    /\ \A j \in SelIdx : HasDraw(j)
    /\ \E j, k \in SelIdx : PadY0(j) # PadY0(k)

(* C17: every invocation runs to completion: a call that selects nothing
   returns at once, and a call with a non-empty selection goes through trace,
   resolve, blur pass 0, blur pass 1 and copy-back, each exactly once and in
   this order, and returns, also when the trace stage stopped on an arena
   overflow. *)
StageStep ==
    \/ pc = "idle" /\ pc' = "RenderBakeImage"
    \/ pc = "RenderBakeImage" /\ pc' = "ResolveBakeImage"
    \/ pc = "ResolveBakeImage" /\ pc' = "BlurPass0"
    \/ pc = "BlurPass0" /\ pc' = "BlurPass1"
    \/ pc = "BlurPass1" /\ pc' = "CopyBakeImageResult"
    \/ pc = "CopyBakeImageResult" /\ pc' = "idle"

RenderPasses(stage) ==
    { c \in CmdIdx : cmds[c].op = "beginRenderPass" /\ cmds[c].stage = stage }

EachStageOnce ==
    /\ \A stage \in {"trace", "resolve", "blur0", "blur1"} :
          Cardinality(RenderPasses(stage)) = 1
    /\ Cardinality({ c \in CmdIdx : cmds[c].op = "copyImage" }) <= 1
    /\ lastSurfaceCount = RenderedCount

C17_RunsToCompletion ==
    /\ [][StageStep]_pc
    /\ [][\A input \in InputLists :
             Raytrace(input) =>
                IF input # << >> /\ selectedSurfaces' # << >>
                THEN pc' = "RenderBakeImage" ELSE pc' = "idle"]_vars
    /\ [](InvocationDone => EachStageOnce)
    /\ (pc = "RenderBakeImage") ~> InvocationDone

C17_Witness ==
    /\ InvocationDone
    /\ buffersFull
    /\ invocations >= 2
    /\ \E j \in SelIdx : Rendered(j)
    /\ \E j \in SelIdx : ~Rendered(j)

(* C18: no step of a bake invocation changes the atlas pages (their number,
   their sizes, their tracked layout), and the placement of a surface in the
   atlas is an input that no step writes; the number and the sizes of the
   pages change only in CreateLightmap and SetLightmapCount; SetLightmapCount
   with a count not above the current one changes nothing, and with a larger
   count keeps the existing pages and appends new ones of the given size. *)
PageSizes(pages) == [i \in 1..Len(pages) |-> pages[i].size]

BakeStep == pc # "idle" \/ invocations' # invocations

OnlyAppends(size, count) ==
    IF count <= Len(Lightmaps) THEN Lightmaps' = Lightmaps
    ELSE /\ Len(Lightmaps') = count
         /\ SubSeq(Lightmaps', 1, Len(Lightmaps)) = Lightmaps
         /\ \A i \in (Len(Lightmaps) + 1)..count : Lightmaps'[i].size = size

C18_AtlasChangesOnlyOnRequest ==
    /\ [][BakeStep => Lightmaps' = Lightmaps]_vars
    /\ [][PageSizes(Lightmaps') # PageSizes(Lightmaps) =>
             \E size \in 1..MaxLightmapSize, count \in 0..MaxLightmapCount :
                CreateLightmap(size, count) \/ SetLightmapCount(size, count)]_vars
    /\ [][\A size \in 1..MaxLightmapSize, count \in 0..MaxLightmapCount :
             SetLightmapCount(size, count) => OnlyAppends(size, count)]_vars

C18_Witness ==
    /\ InvocationDone
    /\ \E c \in CmdIdx : cmds[c].op = "copyImage"
    /\ Len(Lightmaps) = MaxLightmapCount
    /\ Lightmaps[1].size # Lightmaps[MaxLightmapCount].size

(* C19: DownloadLightmap blocks: it records the copy of the page into the
   staging buffer, then waits until the GPU has executed everything recorded,
   and only then copies the staging buffer, which by then holds the texels of
   the page, into the destination; nothing else runs on the thread meanwhile,
   and when it returns the page is tracked as shader-readable again. *)
DownloadOrder ==
    \/ download.pc = "none" /\ download.pc' = "transition"
    \/ download.pc = "transition" /\ download.pc' = "WaitForCommands"
    \/ download.pc = "WaitForCommands" /\ download.pc' = "memcpy"
    \/ download.pc = "memcpy" /\ download.pc' = "none"

CopyIsRecorded ==
    \E k \in 1..Len(transferCommands) :
        /\ transferCommands[k].op = "copyImageToBuffer"
        /\ transferCommands[k].page = download.arrayIndex

C19_DownloadWaitsBeforeRead ==
    /\ [][download.pc' # download.pc => DownloadOrder]_vars
    /\ [](download.pc = "WaitForCommands" => CopyIsRecorded)
    /\ [][DownloadMemcpy =>
             /\ transferCommands = << >>
             /\ stagingBuffer = Texels(download.arrayIndex)
             /\ buffer' = Texels(download.arrayIndex)]_vars
    /\ [][download.pc # "none" => UNCHANGED bakeVars]_vars
    /\ [](download.pc = "none" =>
             \A i \in 1..Len(Lightmaps) : Lightmaps[i].Layout = "SHADER_READ_ONLY_OPTIMAL")

C19_Witness ==
    /\ download.pc = "none"
    /\ buffer = Texels(MaxLightmapCount - 1)
    /\ Len(Lightmaps) = MaxLightmapCount
    /\ invocations >= 1

(* C20: Copy-back records one copy region for every selected surface that is
   rendered and none for one that is not; the region reads the texWidth x
   texHeight rectangle at the canvas position (X, Y) of the surface and writes
   it at (atlasX, atlasY) of page atlasPageIndex; all regions go into a single
   copy command. *)
CopyCommands == { c \in CmdIdx : cmds[c].op = "copyImage" }

ReadsRectangleOf(region, j) ==
    /\ region.srcX = selectedSurfaces[j].X
    /\ region.srcY = selectedSurfaces[j].Y

IsRegionOf(region, j) ==
    LET s == selectedSurfaces[j].Surface IN
    /\ ReadsRectangleOf(region, j)
    /\ region.width = surf[s].texWidth
    /\ region.height = surf[s].texHeight
    /\ region.dstX = AtlasPlacement(s).atlasX
    /\ region.dstY = AtlasPlacement(s).atlasY
    /\ region.dstPage = AtlasPlacement(s).atlasPageIndex

C20_OneRegionPerRendered ==
    InvocationDone =>
        /\ Cardinality(CopyCommands) <= 1
        /\ RenderedCount > 0 => CopyCommands # {}
        /\ \A c \in CopyCommands :
              LET regions == cmds[c].regions IN
              /\ Len(regions) = RenderedCount
              /\ \A j \in SelIdx :
                    IF Rendered(j)
                    THEN /\ Cardinality({ r \in 1..Len(regions) :
                                            ReadsRectangleOf(regions[r], j) }) = 1
                         /\ \E r \in 1..Len(regions) : IsRegionOf(regions[r], j)
                    ELSE \A r \in 1..Len(regions) : ~ReadsRectangleOf(regions[r], j)

C20_Witness ==
    /\ InvocationDone
    /\ \E j, k \in SelIdx :
          /\ Rendered(j) /\ ~Rendered(k)
          /\ AtlasPlacement(selectedSurfaces[j].Surface).atlasX > 0
          /\ surf[selectedSurfaces[j].Surface].texWidth
               # surf[selectedSurfaces[j].Surface].texHeight

(* the trace draws recorded into the rectangle of `target', and whether one
   of them draws the smoothing-group member m *)
TraceDrawsOf(recorded, target) ==
    { c \in 1..Len(recorded) : /\ recorded[c].op = "draw"
                               /\ recorded[c].stage = "trace"
                               /\ recorded[c].target = target }

MemberDrawn(recorded, target, m) ==
    \E c \in TraceDrawsOf(recorded, target) : recorded[c].member = m

(* the members of the smoothing group of `target' that are not culled, in
   the order the trace stage visits them *)
VisibleMembers(target) ==
    SelectSeq(SmoothingGroupSurfaces(smoothingGroupIndex[target]),
              LAMBDA m : ~BoundsNotVisible(m, target))

TraceDraws(recorded) ==
    { c \in 1..Len(recorded) : recorded[c].op = "draw" /\ recorded[c].stage = "trace" }

(* every draw was appended where the arenas stood and fitted what was left
   of both *)
DrawsFitted(recorded, vpos, lpos) ==
    \A c \in TraceDraws(recorded) :
        /\ recorded[c].firstVertex + recorded[c].vertexCount <= verticesBufferSize
        /\ recorded[c].lightEnd <= lightsBufferSize
        /\ recorded[c].vertexCount = surf[recorded[c].member].numVerts
        /\ recorded[c].lightEnd - recorded[c].lightStart = surf[recorded[c].member].lightCount
        /\ recorded[c].firstVertex = vpos + TraceVertices(SubSeq(recorded, 1, c - 1), 1)
        /\ recorded[c].lightStart = lpos + TraceLights(SubSeq(recorded, 1, c - 1), 1)

(* the trace stage stopped at member k of selection i: that member fits
   neither arena position as the stage left them, the members before it are
   drawn, it and the members after it are not, and no later selection is
   touched *)
StoppedAt(sel, recorded, vpos, lpos, i, k) ==
    LET target == sel[i].Surface
        members == VisibleMembers(target)
    IN /\ \/ lpos + surf[members[k]].lightCount > lightsBufferSize
          \/ vpos + surf[members[k]].numVerts > verticesBufferSize
       /\ \A n \in 1..(k - 1) : MemberDrawn(recorded, target, members[n])
       /\ \A n \in k..Len(members) : ~MemberDrawn(recorded, target, members[n])
       /\ \A j \in 1..(i - 1) : sel[j].Rendered
       /\ \A j \in i..Len(sel) : ~sel[j].Rendered
       /\ \A j \in (i + 1)..Len(sel) : TraceDrawsOf(recorded, sel[j].Surface) = {}

AllTraced(sel, recorded) ==
    \A j \in 1..Len(sel) :
        /\ sel[j].Rendered
        /\ ~NoLightsNoSun(sel[j].Surface) =>
              \A n \in 1..Len(VisibleMembers(sel[j].Surface)) :
                  MemberDrawn(recorded, sel[j].Surface, VisibleMembers(sel[j].Surface)[n])

(* C21: the trace stage appends a smoothing-group member to the arenas and
   draws it only when its lights fit the rest of the light arena and its
   vertices fit the rest of the geometry arena; at the first member for which
   either does not fit it advances neither position, records no draw for that
   member and processes no further selected surface in the invocation. *)
C21_AppendOnlyWhenBothFit ==
    [][RenderBakeImage =>
          /\ ArenasAdvanceByDraws
          /\ DrawsFitted(cmds', verticesPos, lightsPos)
          /\ IF buffersFull'
             THEN \E i \in 1..Len(selectedSurfaces') :
                     \E k \in 1..Len(VisibleMembers(selectedSurfaces'[i].Surface)) :
                        StoppedAt(selectedSurfaces', cmds', verticesPos', lightsPos', i, k)
             ELSE AllTraced(selectedSurfaces', cmds')]_vars

(* the light arena stopped the trace stage while the geometry arena had
   room for any member *)
C21_Witness ==
    /\ pc = "ResolveBakeImage"
    /\ buffersFull
    /\ \A s \in Surfaces : verticesPos + surf[s].numVerts <= verticesBufferSize
    /\ \E j, k \in SelIdx : j < k /\ ~Rendered(j) /\ HasDraw(j)

(* the render passes of the full-screen stages, and their render areas *)
FullScreenStages == {"resolve", "blur0", "blur1"}

RenderAreaIs(c, w, h) == cmds[c].maxX = w /\ cmds[c].maxY = h

ExtentCovers(j) ==
    LET e == selectedSurfaces[j] IN
    /\ e.X >= 0 /\ e.Y >= 0
    /\ e.X + surf[e.Surface].texWidth <= bakeImage.maxX
    /\ e.Y + surf[e.Surface].texHeight <= bakeImage.maxY

(* C22: the used extent (maxX, maxY) that SelectSurfaces computes contains
   the rectangle (X, Y, texWidth, texHeight) of every selected surface;
   Resolve and both blur passes render exactly the area (0, 0, maxX, maxY),
   whatever the size of the canvas, and only the trace stage renders the
   whole canvas. *)
C22_ExtentCoversAndBoundsPasses ==
    /\ \A j \in SelIdx : ExtentCovers(j)
    /\ \A c \in CmdIdx :
          cmds[c].op = "beginRenderPass" =>
             IF cmds[c].stage \in FullScreenStages
             THEN RenderAreaIs(c, bakeImage.maxX, bakeImage.maxY)
             ELSE RenderAreaIs(c, bakeImageSize, bakeImageSize)
    /\ InvocationDone =>
          \A stage \in FullScreenStages : RenderPasses(stage) # {}

C22_Witness ==
    /\ InvocationDone
    /\ Len(selectedSurfaces) >= 2
    /\ bakeImage.maxY < bakeImageSize
    /\ \E j \in SelIdx : selectedSurfaces[j].X > 1
    /\ \E j \in SelIdx : selectedSurfaces[j].X + surf[selectedSurfaces[j].Surface].texWidth
                            + spacing = bakeImage.maxX

(* C28: after SelectSurfaces the used extent is inside the canvas: maxX and
   maxY are at most bakeImageSize, and so is the render area of every render
   pass recorded with them. *)
C28_ExtentWithinCanvas ==
    /\ bakeImage.maxX <= bakeImageSize
    /\ bakeImage.maxY <= bakeImageSize
    /\ \A c \in CmdIdx :
          cmds[c].op = "beginRenderPass" =>
             (cmds[c].maxX <= bakeImageSize /\ cmds[c].maxY <= bakeImageSize)

(* the image a stage writes (the framebuffer of its render pass) and the
   image it reads (the one its descriptor set samples) *)
StageWrites(stage, image) ==
    /\ RenderPasses(stage) # {}
    /\ \A c \in RenderPasses(stage) : cmds[c].image = image

StageReads(stage, image) ==
    /\ \E c \in CmdIdx : cmds[c].op = "bindDescriptorSet" /\ cmds[c].stage = stage
    /\ \A c \in CmdIdx :
          (cmds[c].op = "bindDescriptorSet" /\ cmds[c].stage = stage) => cmds[c].image = image

(* the render pass that wrote `image' last before command j *)
LastWriter(image, j) ==
    { w \in 1..(j - 1) : /\ IsWriteOf(w, image)
                         /\ \A k \in (w + 1)..(j - 1) : ~IsWriteOf(k, image) }

BlurOrder ==
    /\ StageReads("blur0", "resolve") /\ StageWrites("blur0", "blur")
    /\ StageReads("blur1", "blur") /\ StageWrites("blur1", "resolve")
    /\ \A a \in RenderPasses("blur0"), b \in RenderPasses("blur1") : a < b
    /\ \A c \in CmdIdx :
          cmds[c].op = "copyImage" =>
             /\ cmds[c].image = "resolve"
             /\ LastWriter("resolve", c) # {}
             /\ \A w \in LastWriter("resolve", c) : cmds[w].stage = "blur1"

(* C23: in every invocation blur pass 0 reads the resolve image and writes
   the blur image and pass 1, after it, reads the blur image and writes the
   resolve image; the resolve image that Copy-back reads was last written by
   pass 1, and neither pass reads the image it writes. *)
C23_BlurPassOrderFixed ==
    /\ (pc \in {"CopyBakeImageResult", "idle"} /\ Recorded) => BlurOrder
    /\ \A c, d \in CmdIdx :
          (/\ cmds[c].op = "beginRenderPass" /\ cmds[d].op = "bindDescriptorSet"
           /\ cmds[c].stage = cmds[d].stage /\ cmds[c].stage \in {"blur0", "blur1"})
             => cmds[c].image # cmds[d].image

C23_Witness ==
    /\ InvocationDone
    /\ invocations = MaxInvocations
    /\ callsThisFrame = MaxInvocations
    /\ \E c \in CmdIdx : cmds[c].op = "copyImage"
    /\ \E j \in SelIdx : Rendered(j) /\ HasDraw(j)

(* the position of surface s in a list without repetitions, 0 when absent *)
PositionIn(list, s) ==
    IF \E n \in 1..Len(list) : list[n] = s
    THEN CHOOSE n \in 1..Len(list) : list[n] = s
    ELSE 0

(* sel lists surfaces of `input', each once, in the order of `input' *)
IsSubsequenceOf(sel, input) ==
    /\ \A j \in 1..Len(sel) : PositionIn(input, sel[j].Surface) > 0
    /\ \A j, k \in 1..Len(sel) :
          j < k => PositionIn(input, sel[j].Surface) < PositionIn(input, sel[k].Surface)

(* the trace draws come target by target in the order of the selection, and
   so do the copy regions *)
DrawsInSelectionOrder ==
    \A c, d \in TraceDraws(cmds) :
        c < d => \E j, k \in SelIdx : /\ j <= k
                                      /\ selectedSurfaces[j].Surface = cmds[c].target
                                      /\ selectedSurfaces[k].Surface = cmds[d].target

RegionsInSelectionOrder ==
    \A c \in CopyCommands :
        \A r, t \in 1..Len(cmds[c].regions) :
            r < t => \E j, k \in SelIdx : /\ j < k
                                          /\ IsRegionOf(cmds[c].regions[r], j)
                                          /\ IsRegionOf(cmds[c].regions[t], k)

(* what the trace stage rendered is a prefix of the selection and what it
   re-queued is the rest *)
RenderedIsPrefix ==
    /\ \A j, k \in SelIdx : (j < k /\ Rendered(k)) => Rendered(j)
    /\ (pc \in {"ResolveBakeImage", "BlurPass0", "BlurPass1", "CopyBakeImageResult"}) =>
          \A j \in SelIdx : Rendered(j) = ~needsUpdate[selectedSurfaces[j].Surface]

(* C24: the selection lists surfaces of the input sequence in the order of
   that sequence (no priority, no age); the trace stage draws, the copy-back
   copies and the overflow re-queue takes the selected surfaces in that same
   order. *)
C24_SelectionKeepsInputOrder ==
    /\ [][\A input \in InputLists :
             (Raytrace(input) /\ input # << >>) => IsSubsequenceOf(selectedSurfaces', input)]_vars
    /\ [](DrawsInSelectionOrder /\ RegionsInSelectionOrder /\ RenderedIsPrefix)

C24_Witness ==
    /\ pc = "idle"
    /\ Recorded
    /\ buffersFull
    /\ Len(selectedSurfaces) >= 2
    /\ selectedSurfaces[1].Surface > selectedSurfaces[2].Surface
    /\ Rendered(1) /\ HasDraw(1) /\ HasCopy(1)
    /\ \E s \in Surfaces : ~IsSelected(selectedSurfaces, s) /\ needsUpdate[s]

(* C25: after RemoveTexture(t) no pending upload id maps to t, so that
   CheckUploadID returns false for every id CreateUploadID(t) handed out
   before the removal, however many ids were created for t. *)
C25_NoPendingUploadOfRemoved ==
    \A id \in DOMAIN PendingUploads : PendingUploads[id] \notin destroyed

(* surface s is selected, rendered and copied in the invocation that ends *)
BakedAndCopied(s) ==
    \E j \in SelIdx : /\ selectedSurfaces[j].Surface = s
                      /\ Rendered(j)
                      /\ \E c \in 1..Len(cmds') :
                            /\ cmds'[c].op = "copyImage"
                            /\ \E r \in 1..Len(cmds'[c].regions) :
                                  /\ cmds'[c].regions[r].srcX = selectedSurfaces[j].X
                                  /\ cmds'[c].regions[r].srcY = selectedSurfaces[j].Y

NoUpdateLost ==
    /\ \A s \in DirtyAtStart :
          \/ BakedAndCopied(s) /\ ~needsUpdate'[s]
          \/ needsUpdate'[s]
    /\ \A j \in SelIdx :
          /\ Rendered(j) <=> ~needsUpdate'[selectedSurfaces[j].Surface]
          /\ Rendered(j) => BakedAndCopied(selectedSurfaces[j].Surface)
          /\ dirtyAtStart[selectedSurfaces[j].Surface]

(* C26: no update is lost: when an invocation ends, every surface that was
   dirty when it started is either rendered and copied to the atlas, with
   needsUpdate false, or has needsUpdate true; a selected surface is rendered
   exactly when its needsUpdate is false; a call that selects nothing leaves
   every needsUpdate as it was. *)
C26_NoUpdateLost ==
    /\ [][CopyBakeImageResult => NoUpdateLost]_vars
    /\ [][\A input \in InputLists :
             (Raytrace(input) /\ pc' = "idle") => needsUpdate' = needsUpdate]_vars
    /\ [][(pc \in {"ResolveBakeImage", "BlurPass0", "BlurPass1", "CopyBakeImageResult"})
             => needsUpdate' = needsUpdate]_vars

C26_Witness ==
    /\ InvocationDone
    /\ lastSurfaceCount = 1
    /\ \E c \in CmdIdx : cmds[c].op = "copyImage" /\ Len(cmds[c].regions) = 1
    /\ \E j \in SelIdx : ~Rendered(j) /\ needsUpdate[selectedSurfaces[j].Surface]
    /\ \E s \in Surfaces :
          /\ ~IsSelected(selectedSurfaces, s) /\ needsUpdate[s]
          /\ surf[s].texWidth + 2 > bakeImageSize

(* the first surface of the argument that was dirty when the invocation
   started *)
FirstDirty ==
    surfaces[CHOOSE n \in 1..Len(surfaces) :
                /\ dirtyAtStart[surfaces[n]]
                /\ \A m \in 1..(n - 1) : ~dirtyAtStart[surfaces[m]]]

FirstDirtyRendered ==
    /\ selectedSurfaces'[1].Surface = FirstDirty
    /\ selectedSurfaces'[1].Rendered

BakedInto(s) ==
    /\ InvocationDone
    /\ \E j \in SelIdx : selectedSurfaces[j].Surface = s /\ Rendered(j) /\ HasCopy(j)

(* C27: when every frame calls BeginFrame and then Raytrace once on the list
   of all surfaces, every padded surface fits the empty canvas and the summed
   vertices and lights of every smoothing group fit the empty arenas, then
   every invocation that finds a dirty surface renders at least the first
   dirty surface of the list, and every dirty surface is eventually rendered
   and copied to the atlas. *)
C27_ProgressUnderBackpressure ==
    /\ [][(RenderBakeImage /\ PaddedFitCanvas /\ GroupsFitArenas) => FirstDirtyRendered]_vars
    /\ \A s \in Surfaces :
          (PaddedFitCanvas /\ GroupsFitArenas /\ needsUpdate[s]) ~> BakedInto(s)
    /\ (PaddedFitCanvas /\ GroupsFitArenas) ~> [](\A s \in Surfaces : ~needsUpdate[s])

C27_Witness ==
    /\ PaddedFitCanvas
    /\ GroupsFitArenas
    /\ InvocationDone
    /\ invocations = 2
    /\ callsThisFrame = 1
    /\ buffersFull
    /\ Rendered(1) /\ HasCopy(1)
    /\ \E j \in SelIdx : ~Rendered(j)
    /\ \E s \in Surfaces : ~needsUpdate[s] /\ ~IsSelected(selectedSurfaces, s)

(***************************************************************************)
(* C29: the worker thread protocol                                         *)
(***************************************************************************)
(* the task the worker has popped and not finished yet *)
TaskInHand == IF workerThread.pc = "task" THEN << workerThread.task >> ELSE << >>

(* the first n submissions in the order they were submitted *)
Submissions(n) == [i \in 1..n |-> i]

(* until the manager is stopped every submitted task is executed, in the
   worker's hands or still queued, in submission order and once each *)
TasksInOrder ==
    /\ executed = Submissions(Len(executed))
    /\ stopThread # "stopped" =>
          executed \o TaskInHand \o Worker.WorkerTasks = Submissions(submitted)

(* the state StopWorkerThread returns in *)
StoppedClean ==
    stopThread = "stopped" =>
       /\ workerThread.pc = "done"
       /\ Worker.WorkerTasks = << >>
       /\ Worker.MainTasks = << >>
       /\ ~Worker.StopFlag
       /\ Worker.Mutex = "none"

(* C29: every task passed to RunOnWorkerThread is executed at most once and
   in submission order, and none is dropped before the manager is stopped;
   while no stop is requested every submitted task is executed; a call of
   StopWorkerThread always returns, whatever the interleaving with
   submissions and a task in progress, with the worker out of its loop and
   joined, both queues empty and the stop flag cleared. *)
C29_WorkerProtocol ==
    /\ []TasksInOrder
    /\ []StoppedClean
    /\ (stopThread # "running") ~> (stopThread = "stopped")
    /\ \A i \in 1..MaxTasks :
          (submitted >= i) ~> (Len(executed) >= i \/ stopThread # "running")

(* the stop request has set the flag and waits in join while a task is in
   progress, an earlier task has run and a later submission is queued *)
C29_Witness ==
    /\ stopThread = "join"
    /\ workerThread.pc = "task"
    /\ Len(executed) >= 1
    /\ Worker.WorkerTasks # << >>
    /\ submitted = MaxTasks

(***************************************************************************)
(* C30: what a draw writes stays inside what it reserved                   *)
(***************************************************************************)
(* the arena ranges draw c of `recorded' reserved *)
ReservedVertices(recorded, c) ==
    recorded[c].firstVertex..(recorded[c].firstVertex + recorded[c].vertexCount - 1)

LightRange(recorded, c) == recorded[c].lightStart..(recorded[c].lightEnd - 1)

(* the trace draws of one invocation: each writes its vertex and light
   records inside its own reservation, the reservation lies between the
   arena positions before and after the stage and inside the buffers, and no
   two draws share a vertex or a light record *)
WritesInsideReservation(recorded, vpos, lpos, vposAfter, lposAfter) ==
    \A c \in TraceDraws(recorded) :
        /\ WrittenVertices(recorded[c].member, recorded[c].firstVertex)
              \subseteq ReservedVertices(recorded, c)
        /\ WrittenLights(recorded[c].member, recorded[c].lightStart)
              \subseteq LightRange(recorded, c)
        /\ ReservedVertices(recorded, c) \subseteq vpos..(vposAfter - 1)
        /\ LightRange(recorded, c) \subseteq lpos..(lposAfter - 1)
        /\ vposAfter <= verticesBufferSize
        /\ lposAfter <= lightsBufferSize
        /\ \A d \in TraceDraws(recorded) \ {c} :
              /\ WrittenVertices(recorded[c].member, recorded[c].firstVertex)
                    \cap ReservedVertices(recorded, d) = {}
              /\ LightRange(recorded, c) \cap LightRange(recorded, d) = {}

(* within a frame the arena positions only grow, so the ranges of a later
   invocation of the frame start where those of the earlier ones end *)
PositionsGrowWithinFrame ==
    (lightsPos' < lightsPos \/ verticesPos' < verticesPos) =>
        (pc = "idle" /\ lightsPos' = 0 /\ verticesPos' = 0 /\ callsThisFrame' = 0)

(* C30: every vertex record the trace stage writes for a draw lies in the
   range [firstVertex, firstVertex + vertexCount) that the draw reserved
   (numVerts records for a floor or ceiling, four for any other member), so
   no draw writes past its reservation or into the vertices of another draw,
   and the light ranges [LightStart, LightEnd) of the draws of one frame are
   pairwise disjoint. *)
C30_WritesInsideReservation ==
    [][/\ RenderBakeImage =>
             WritesInsideReservation(cmds', verticesPos, lightsPos, verticesPos', lightsPos')
       /\ PositionsGrowWithinFrame]_vars

(* the second invocation of a frame has drawn a floor or ceiling whose
   vertex count is not four and a wall, and two draws with lights, on top of
   the arena positions the first invocation left *)
C30_Witness ==
    /\ pc = "ResolveBakeImage"
    /\ callsThisFrame = 2
    /\ \E c, d \in TraceDraws(cmds) :
          /\ surf[cmds[c].member].Type = "ST_FLOOR"
          /\ surf[cmds[d].member].Type = "ST_MIDDLESIDE"
          /\ cmds[c].vertexCount # cmds[d].vertexCount
          /\ cmds[c].firstVertex > 0
    /\ \E c, d \in TraceDraws(cmds) :
          /\ c # d
          /\ LightRange(cmds, c) # {} /\ LightRange(cmds, d) # {}
          /\ cmds[c].lightStart > 0

====
